---- MODULE Spec2Model ----
(***************************************************************************)
(* Session-to-backend identity synchronisation of the resumedb frontend:   *)
(*   - GET /api/sync-user   (app/api/sync-user/route.ts)                   *)
(*   - GET /api/auth-token  (app/api/auth-token/route.ts)                  *)
(*   - the UserSync client component (components/UserSync.tsx)             *)
(* JavaScript values are modelled as follows: undefined/null is NULL, a    *)
(* string is a TLA+ string, `a || b` is Or(a, b), an object is a record    *)
(* and an optional object carries a `present` field.                       *)
(***************************************************************************)
EXTENDS Integers, Sequences, FiniteSets, TLC

VARIABLES
    env,              \* process.env of the deployment (backend URL settings)
    route,            \* the route handler serving the current request
    pc,               \* position of the handler: idle, session, fetch, done
    session,          \* outcome of auth0.getSession() for the current request
    calls,            \* backend requests issued by the current invocation
    response,         \* what the backend fetch settled with
    result,           \* the NextResponse returned by the handler
    user,             \* useUser().user of the UserSync component
    isLoading,        \* useUser().isLoading
    hasSyncedRef,     \* hasSyncedRef.current
    hasAttemptedRef,  \* hasAttemptedRef.current
    effectPending,    \* React has scheduled a run of the effect
    inFlight,         \* fetches of /api/sync-user awaiting their response
    requests,         \* requests issued to /api/sync-user in this lifetime
    syncState,        \* Idle, Attempting, Synced, Deferred, Failed
    lastResponse,     \* what the last settled fetch of /api/sync-user brought
    lifecycle,        \* number of the current page lifecycle (mount)
    reruns,           \* effect re-executions on the same instance so far
    appBase,          \* who answers at APP_BASE_URL: this application or another server
    pagePc,           \* position of DashboardPage: start, sync, rendered, redirected, error
    pageSession,      \* the session the browser's cookie of this page load stands for
    origin,           \* whose request the route handler is serving: none, render, client
    renderOutcome,    \* what the render-time fetch of /api/sync-user settled with
    renderRequests,   \* render-time requests to /api/sync-user in this page load
    backendCalls,     \* backend identity calls made for this page load
    tokenUser,        \* session.user of the request that synthesizes a token
    tokenClock,       \* the two readings of the clock in seconds, route.ts 117-118
    tokenText,        \* minimalToken as characters, empty before it is built
    db,               \* backend: the rows of the users table
    worker,           \* backend: each request in progress in get_current_user
    utcnow,           \* backend: the current time
    nextUuid,         \* backend: stands for the next uuid4()
    history,          \* backend: per subject, the completed calls and their times
    lastDone,         \* backend: the call answered last
    received,         \* backend: requests received so far
    cookie,           \* visit: what reading the request's session cookie yields
    path,             \* visit: the page requested, "/" or "/dashboard"
    stage,            \* visit: middleware, page, done
    cleared,          \* visit: the response deletes the appSession cookies
    answer,           \* visit: what the request ended with
    visits            \* visit: number of the request

serverVars == <<env, route, pc, session, calls, response, result>>
clientVars == <<user, isLoading, hasSyncedRef, hasAttemptedRef, effectPending,
                inFlight, requests, syncState, lastResponse, lifecycle, reruns>>
pageVars == <<appBase, pagePc, pageSession, origin, renderOutcome, renderRequests,
              backendCalls>>
\* The variables outside the route handlers and the UserSync component.
tokenVars == <<tokenUser, tokenClock, tokenText>>
backendVars == <<db, worker, utcnow, nextUuid, history, lastDone, received>>
visitVars == <<cookie, path, stage, cleared, answer, visits>>
restVars == <<pageVars, tokenVars, backendVars, visitVars>>
vars == <<env, route, pc, session, calls, response, result,
          user, isLoading, hasSyncedRef, hasAttemptedRef, effectPending,
          inFlight, requests, syncState, lastResponse, lifecycle, reruns,
          restVars>>

-----------------------------------------------------------------------------
(* Bounds of the model *)

\* Date.now()/1000 is drawn from 0..MaxNow when a token is synthesized.
MaxNow == 1
\* Page lifecycles (fresh mounts of UserSync) in one behaviour.
MaxLifecycles == 2
\* Re-executions of the effect on one mounted instance (re-render, StrictMode).
MaxReruns == 2
MaxClock == 2
MaxRequests == 2
MaxVisits == 3

-----------------------------------------------------------------------------
(* JavaScript values *)

NULL == "null"

\* JS truthiness of a string-or-undefined value.
Truthy(v) == v # NULL /\ v # ""

\* JS `a || b`.
Or(a, b) == IF Truthy(a) THEN a ELSE b

\* `HTTP ${response.status}`
HttpStatusText(status) == "HTTP " \o ToString(status)

\* Response.ok
ok(status) == status >= 200 /\ status <= 299

\* NextResponse.json(body, { status })
JsonResponse(status, body) == [status |-> status, body |-> body]

-----------------------------------------------------------------------------
(* Inputs: environment, session shapes, backend behaviour *)

DefaultBackendUrl == "http://localhost:8000"

Envs == [NEXT_PUBLIC_BACKEND_URL : {NULL, "http://public:8000"},
         BACKEND_URL : {NULL, "http://internal:8000"}]

NoToken == [present |-> FALSE]
TokenObjects == {NoToken} \cup
    {[present |-> TRUE, access_token |-> v] : v \in {NULL, "at_token"}}

NoUser == [present |-> FALSE]
ProfileUsers ==
    {[present |-> TRUE, sub |-> s, email |-> e, name |-> n, nickname |-> k, picture |-> p] :
        s \in {NULL, "", "idp|42"}, e \in {NULL, "a@b.com"}, n \in {NULL, "Ann"},
        k \in {NULL, "ann"}, p \in {NULL, "http://pic"}}
\* Users without profile variety: the profile is read in the synthesized tier only.
PlainUsers == {u \in ProfileUsers :
                 /\ u.email = (IF Truthy(u.sub) THEN "a@b.com" ELSE NULL)
                 /\ u.name = NULL /\ u.nickname = NULL /\ u.picture = NULL}

AllSessions ==
    [kind : {"session"},
     accessToken : {NULL, "", "at_a"}, access_token : {NULL, "at_b"},
     token : TokenObjects,
     idToken : {NULL, "", "id_a"}, id_token : {NULL, "id_b"},
     user : {NoUser} \cup ProfileUsers]

HasTokenField(s) ==
    \/ s.accessToken # NULL \/ s.access_token # NULL \/ s.token.present
    \/ s.idToken # NULL \/ s.id_token # NULL

\* Session shapes of the requests: every token shape with a plain user, and
\* every profile for the sessions that carry no token field.
Sessions == {s \in AllSessions : HasTokenField(s) => s.user \in {NoUser} \cup PlainUsers}

GetSessionThrows == [kind |-> "throws"]
NoSession == [kind |-> "null"]
SessionOutcomes == {GetSessionThrows, NoSession} \cup Sessions

\* Bodies the backend may answer with: not JSON, or a JSON object.
NoJson == [json |-> FALSE]
Json(v) == [json |-> TRUE, value |-> v]
BackendBodies ==
    {NoJson,
     Json([id |-> "u1", auth0_id |-> "idp|42", email |-> "a@b.com"]),
     Json([detail |-> "Invalid token format"]),
     Json([detail |-> ""]),
     Json([message |-> "no detail"])}
BackendStatuses == {200, 201, 401, 500}

NoResponse == [kind |-> "none"]
FetchThrew == [kind |-> "threw", message |-> "fetch failed"]
HttpResponse(status, body) == [kind |-> "http", status |-> status, body |-> body]

NoResult == [status |-> 0, body |-> [none |-> TRUE]]

-----------------------------------------------------------------------------
(* GET /api/sync-user *)

\* Mutant of accessToken: the probes are chained with `??`, so an empty string
\* counts as a value.
accessTokenNullish(s) ==
    IF s.accessToken # NULL THEN s.accessToken
    ELSE IF s.access_token # NULL THEN s.access_token
    ELSE IF s.token.present THEN s.token.access_token ELSE NULL

\* Mutant of accessToken: the nested token.access_token is not probed.
accessTokenTopLevelOnly(s) == Or(s.accessToken, s.access_token)

\* route.ts 32-34
accessToken(s) ==
    Or(Or(s.accessToken, s.access_token),
       IF s.token.present THEN s.token.access_token ELSE NULL)

\* route.ts 52
idToken(s) == Or(s.idToken, s.id_token)

\* route.ts 56, 127, 197
backendUrl(e) == Or(Or(e.NEXT_PUBLIC_BACKEND_URL, e.BACKEND_URL), DefaultBackendUrl)

\* route.ts 57, 128, 198
apiUrl(e) == backendUrl(e) \o "/api/v1/auth/me"

\* route.ts 97, 182: the URL named in the hint of the inner catch blocks
hintUrl(e) == Or(e.NEXT_PUBLIC_BACKEND_URL, DefaultBackendUrl)

Opaque(v) == [kind |-> "opaque", value |-> v]

\* Mutant of minimalToken: the nickname fallback of route.ts 115 is missing.
minimalTokenNoNickname(u, now1, now2) ==
    [kind |-> "jwt",
     header |-> [alg |-> "none", typ |-> "JWT"],
     payload |-> [sub |-> u.sub,
                  email |-> Or(u.email, ""),
                  name |-> Or(u.name, NULL),
                  picture |-> Or(u.picture, NULL),
                  iat |-> now1,
                  exp |-> now2 + 3600],
     signature |-> ""]

\* route.ts 111-123: header.payload.signature, two readings of the clock
minimalToken(u, now1, now2) ==
    [kind |-> "jwt",
     header |-> [alg |-> "none", typ |-> "JWT"],
     payload |-> [sub |-> u.sub,
                  email |-> Or(u.email, ""),
                  name |-> Or(Or(u.name, u.nickname), NULL),
                  picture |-> Or(u.picture, NULL),
                  iat |-> now1,
                  exp |-> now2 + 3600],
     signature |-> ""]

\* Mutant of SelectedTier: the `if (userSub)` test of route.ts 106 is missing.
SelectedTierNoSubCheck(s) ==
    IF Truthy(accessToken(s)) THEN "access"
    ELSE IF Truthy(idToken(s)) THEN "id"
    ELSE "session"

\* Mutant of SelectedTier: the identity token is probed before the access token.
SelectedTierIdFirst(s) ==
    IF Truthy(idToken(s)) THEN "id"
    ELSE IF Truthy(accessToken(s)) THEN "access"
    ELSE IF Truthy(s.user.sub) THEN "session"
    ELSE "none"

\* The tier the handler takes for a session with a user: route.ts 36, 45, 54, 106
SelectedTier(s) ==
    IF Truthy(accessToken(s)) THEN "access"
    ELSE IF Truthy(idToken(s)) THEN "id"
    ELSE IF Truthy(s.user.sub) THEN "session"
    ELSE "none"

Request(e, tier, bearer) == [url |-> apiUrl(e), bearer |-> bearer, tier |-> tier]

\* Mutant of SendRequest: the fetch is issued a second time.
SendRequestTwice(sent, req) == Append(Append(sent, req), req)

\* await fetch(apiUrl, ...): one request leaves the handler
SendRequest(sent, req) == Append(sent, req)

\* route.ts 12-18
NotAuthenticated == JsonResponse(401, [error |-> "Not authenticated"])

\* route.ts 188-193
DeferredResponse(s) ==
    JsonResponse(200,
        [synced |-> FALSE,
         message |-> "Tokens not available in session (known SDK v4 issue). User will be synced on first backend API call.",
         hint |-> [text |-> "The user will be automatically created when they make their first API call to the backend (e.g., uploading a resume).",
                   url |-> NULL],
         user |-> s.user])

\* Mutant of OuterCatch: the exception is thrown on to the caller, no response.
OuterCatchRethrow(message) == NoResult

\* route.ts 232-241
OuterCatch(message) ==
    JsonResponse(500,
        [synced |-> FALSE, error |-> "Failed to sync user", detail |-> message])

\* route.ts 90-98, 175-183
InnerCatch(e, message) ==
    JsonResponse(500,
        [synced |-> FALSE,
         error |-> "Failed to connect to backend",
         detail |-> message,
         hint |-> [text |-> "Make sure the backend is running on ", url |-> hintUrl(e)]])

\* response.json().catch(() => ({ detail: "Unknown error" }))
errorData(body) == IF body.json THEN body.value ELSE [detail |-> "Unknown error"]

\* Mutant of errorMessage: an empty detail is not replaced by the status text.
errorMessageKeepsEmpty(status, body) ==
    LET d == errorData(body) IN
    IF "detail" \in DOMAIN d THEN d.detail ELSE HttpStatusText(status)

\* errorData.detail || `HTTP ${response.status}`
errorMessage(status, body) ==
    LET d == errorData(body) IN
    IF "detail" \in DOMAIN d /\ Truthy(d.detail) THEN d.detail ELSE HttpStatusText(status)

\* Mutant of SyncedBody: the identity tier carries the tag of the synthesized tier.
SyncedBodyWrongTag(tier, userData) ==
    CASE tier = "access"  -> [synced |-> TRUE, user |-> userData]
      [] tier = "id"      -> [synced |-> TRUE, user |-> userData, method |-> "session_data"]
      [] tier = "session" -> [synced |-> TRUE, user |-> userData, method |-> "session_data"]

\* route.ts 72-79, 143-150, 226-231: the body of a successful sync
SyncedBody(tier, userData) ==
    CASE tier = "access"  -> [synced |-> TRUE, user |-> userData]
      [] tier = "id"      -> [synced |-> TRUE, user |-> userData, method |-> "id_token"]
      [] tier = "session" -> [synced |-> TRUE, user |-> userData, method |-> "session_data"]

\* route.ts 80-89, 151-174, 213-224: the body after a non-2xx answer
RejectedBody(req, status, body) ==
    CASE req.tier = "access" ->
            [synced |-> FALSE, error |-> errorMessage(status, body), backendUrl |-> req.url]
      [] req.tier = "id" ->
            [synced |-> FALSE, error |-> errorMessage(status, body), backendUrl |-> req.url,
             method |-> "id_token_failed"]
      [] req.tier = "session" ->
            [synced |-> FALSE, error |-> errorMessage(status, body), backendUrl |-> req.url,
             method |-> "session_data_failed",
             hint |-> [text |-> "User will be automatically synced on first backend API call (e.g., uploading a resume). Check backend logs for JWT decode error details.",
                       url |-> NULL],
             debug |-> [tokenParts |-> 3]]

\* The catch block that handles an exception raised while awaiting the backend:
\* the access-token tier is covered by the outer try only.
CatchFor(e, tier, message) ==
    IF tier = "access" THEN OuterCatch(message) ELSE InnerCatch(e, message)

\* Mutant of OnResponse: a 2xx answer is reported as synced without decoding it.
OnResponseSyncsUndecodable(e, req, status, body) ==
    IF ok(status)
    THEN JsonResponse(200, SyncedBody(req.tier, IF body.json THEN body.value ELSE NULL))
    ELSE JsonResponse(status, RejectedBody(req, status, body))

\* route.ts 70-89, 141-174, 213-231: the handler after the fetch resolved
OnResponse(e, req, status, body) ==
    IF ok(status)
    THEN IF body.json
         THEN JsonResponse(200, SyncedBody(req.tier, body.value))
         ELSE CatchFor(e, req.tier, "Unexpected token in JSON")
    ELSE JsonResponse(status, RejectedBody(req, status, body))

\* A request for /api/sync-user arrives: await auth0.getSession() (route.ts 10)
SyncUserEnter ==
    /\ pc = "idle"
    /\ \E so \in SessionOutcomes : session' = so
    /\ route' = "sync-user"
    /\ pc' = "session"
    /\ UNCHANGED <<env, calls, response, result>>
    /\ UNCHANGED clientVars
    /\ UNCHANGED restVars

\* route.ts 12-54, 100-123, 186-211: from the session to the fetch or to an early return
SyncUserSelect ==
    /\ pc = "session" /\ route = "sync-user"
    /\ IF session.kind = "throws"
       THEN /\ result' = OuterCatch("getSession failed")
            /\ pc' = "done"
            /\ calls' = calls
       ELSE IF session.kind = "null" \/ ~session.user.present
       THEN /\ result' = NotAuthenticated
            /\ pc' = "done"
            /\ calls' = calls
       ELSE LET tier == SelectedTier(session) IN
            CASE tier = "access" ->
                    /\ calls' = SendRequest(calls, Request(env, tier, Opaque(accessToken(session))))
                    /\ pc' = "fetch"
                    /\ result' = result
              [] tier = "id" ->
                    /\ calls' = SendRequest(calls, Request(env, tier, Opaque(idToken(session))))
                    /\ pc' = "fetch"
                    /\ result' = result
              [] tier = "session" ->
                    /\ \E now1 \in 0..MaxNow : \E now2 \in {now1, now1 + 1} :
                          calls' = SendRequest(calls,
                                     Request(env, tier, minimalToken(session.user, now1, now2)))
                    /\ pc' = "fetch"
                    /\ result' = result
              [] tier = "none" ->
                    /\ result' = DeferredResponse(session)
                    /\ pc' = "done"
                    /\ calls' = calls
    /\ UNCHANGED <<env, route, session, response>>
    /\ UNCHANGED clientVars
    /\ UNCHANGED restVars

\* The awaited fetch rejects: the backend is unreachable
BackendUnreachable ==
    /\ pc = "fetch"
    /\ response' = FetchThrew
    /\ result' = CatchFor(env, calls[Len(calls)].tier, FetchThrew.message)
    /\ pc' = "done"
    /\ UNCHANGED <<env, route, session, calls>>
    /\ UNCHANGED clientVars
    /\ UNCHANGED restVars

\* The awaited fetch resolves with the backend's answer
BackendResponds ==
    /\ pc = "fetch"
    /\ \E status \in BackendStatuses : \E body \in BackendBodies :
          /\ response' = HttpResponse(status, body)
          /\ result' = OnResponse(env, calls[Len(calls)], status, body)
    /\ pc' = "done"
    /\ UNCHANGED <<env, route, session, calls>>
    /\ UNCHANGED clientVars
    /\ UNCHANGED restVars

-----------------------------------------------------------------------------
(* GET /api/auth-token *)

\* Mutant of tokenRouteAccessToken: the identity token is handed out when no
\* access token is found.
tokenRouteIdFallback(s) ==
    Or(Or(Or(s.accessToken, s.access_token),
          IF s.token.present THEN s.token.access_token ELSE NULL),
       Or(s.idToken, s.id_token))

\* auth-token route 33-35
tokenRouteAccessToken(s) ==
    Or(Or(s.accessToken, s.access_token),
       IF s.token.present THEN s.token.access_token ELSE NULL)

\* Mutant of NoTokenResponse: the missing token is answered with status 400.
NoTokenResponse400(s) ==
    JsonResponse(400, [accessToken |-> NULL, error |-> "Access token not available"])

\* auth-token route 63-76
NoTokenResponse(s) ==
    JsonResponse(200,
        [accessToken |-> NULL,
         error |-> "Access token not available",
         hint |-> [text |-> "Make sure AUTH0_AUDIENCE is configured in lib/auth0.ts and .env.local. User will be synced on first backend API call.",
                   url |-> NULL],
         debug |-> [hasSession |-> TRUE, hasUser |-> s.user.present]])

\* auth-token route 12-84
AuthTokenResult(so) ==
    IF so.kind = "throws"
    THEN JsonResponse(500, [error |-> "Failed to get access token", detail |-> "getSession failed"])
    ELSE IF so.kind = "null"
    THEN JsonResponse(401, [error |-> "Not authenticated"])
    ELSE IF Truthy(tokenRouteAccessToken(so))
    THEN JsonResponse(200, [accessToken |-> tokenRouteAccessToken(so)])
    ELSE NoTokenResponse(so)

\* A request for /api/auth-token arrives: await auth0.getSession()
AuthTokenEnter ==
    /\ pc = "idle"
    /\ \E so \in SessionOutcomes : session' = so
    /\ route' = "auth-token"
    /\ pc' = "session"
    /\ UNCHANGED <<env, calls, response, result>>
    /\ UNCHANGED clientVars
    /\ UNCHANGED restVars

\* The rest of the handler: no further await
AuthTokenRun ==
    /\ pc = "session" /\ route = "auth-token"
    /\ result' = AuthTokenResult(session)
    /\ pc' = "done"
    /\ UNCHANGED <<env, route, session, calls, response>>
    /\ UNCHANGED clientVars
    /\ UNCHANGED restVars

\* The response has been delivered; the server is ready for the next request
Finish ==
    /\ pc = "done"
    /\ pc' = "idle"
    /\ route' = "none"
    /\ session' = NoSession
    /\ calls' = <<>>
    /\ response' = NoResponse
    /\ result' = NoResult
    /\ UNCHANGED env
    /\ UNCHANGED clientVars
    /\ UNCHANGED restVars

-----------------------------------------------------------------------------
(* The UserSync component *)

ClientUsers == {NULL, "idp|42"}

\* What a fetch of /api/sync-user can resolve with, as the component reads it.
SyncUserAnswers ==
    {HttpResponse(st, b) :
        st \in {200, 401, 500},
        b \in {NoJson,
               Json([synced |-> TRUE, user |-> "u1"]),
               Json([synced |-> FALSE, message |-> "Tokens not available in session"]),
               Json([synced |-> FALSE, error |-> "Failed to connect to backend"]),
               Json([error |-> "Not authenticated"])}}

\* Mutant of NotReady: only isLoading is tested.
NotReadyLoadingOnly(u, loading) == loading

\* UserSync.tsx 27: don't sync if user is loading or not authenticated
NotReady(u, loading) == loading \/ u = NULL

\* Mutant of AlreadyDone: only the synced flag guards the attempt.
AlreadyDoneSyncedOnly(synced, attempted) == synced

\* UserSync.tsx 32: don't sync if already synced or already attempted
AlreadyDone(synced, attempted) == synced \/ attempted

\* Mutant of Outcome: every decodable 2xx body counts as synced.
OutcomeSyncedWhenDecodable(resp) ==
    IF ~ok(resp.status) THEN "Failed"
    ELSE IF ~resp.body.json THEN "Failed"
    ELSE "Synced"

\* Mutant of Outcome: the test of response.ok (UserSync.tsx 45) is missing.
OutcomeIgnoresStatus(resp) ==
    IF ~resp.body.json THEN "Failed"
    ELSE IF "synced" \in DOMAIN resp.body.value /\ resp.body.value.synced THEN "Synced"
    ELSE "Deferred"

\* UserSync.tsx 45-57: the state the attempt ends in for a resolved fetch
Outcome(resp) ==
    IF ~ok(resp.status) THEN "Failed"
    ELSE IF ~resp.body.json THEN "Failed"
    ELSE IF "synced" \in DOMAIN resp.body.value /\ resp.body.value.synced THEN "Synced"
    ELSE "Deferred"

\* useUser() returns a new user / isLoading pair: the dependencies of the effect change
UseUserUpdate ==
    /\ \E u \in ClientUsers : \E l \in BOOLEAN :
          /\ <<u, l>> # <<user, isLoading>>
          /\ user' = u
          /\ isLoading' = l
    /\ effectPending' = TRUE
    /\ UNCHANGED <<hasSyncedRef, hasAttemptedRef, inFlight, requests, syncState,
                   lastResponse, lifecycle, reruns>>
    /\ UNCHANGED serverVars
    /\ UNCHANGED restVars

\* React runs the effect again on the same instance (refs kept)
EffectRerun ==
    /\ reruns < MaxReruns
    /\ ~effectPending
    /\ effectPending' = TRUE
    /\ reruns' = reruns + 1
    /\ UNCHANGED <<user, isLoading, hasSyncedRef, hasAttemptedRef, inFlight, requests,
                   syncState, lastResponse, lifecycle>>
    /\ UNCHANGED serverVars
    /\ UNCHANGED restVars

\* UserSync.tsx 24-43, 64: the effect calls syncUser, which runs up to its await
RunEffect ==
    /\ effectPending
    /\ effectPending' = FALSE
    /\ IF NotReady(user, isLoading) \/ AlreadyDone(hasSyncedRef, hasAttemptedRef)
       THEN UNCHANGED <<hasAttemptedRef, inFlight, requests, syncState>>
       ELSE /\ hasAttemptedRef' = TRUE
            /\ inFlight' = inFlight + 1
            /\ requests' = requests + 1
            /\ syncState' = "Attempting"
    /\ UNCHANGED <<user, isLoading, hasSyncedRef, lastResponse, lifecycle, reruns>>
    /\ UNCHANGED serverVars
    /\ UNCHANGED restVars

\* UserSync.tsx 45-57: the fetch resolves
FetchResolves ==
    /\ inFlight > 0
    /\ \E resp \in SyncUserAnswers :
          /\ lastResponse' = resp
          /\ syncState' = Outcome(resp)
          /\ hasSyncedRef' = (hasSyncedRef \/ Outcome(resp) = "Synced")
    /\ inFlight' = inFlight - 1
    /\ UNCHANGED <<user, isLoading, hasAttemptedRef, effectPending, requests,
                   lifecycle, reruns>>
    /\ UNCHANGED serverVars
    /\ UNCHANGED restVars

\* UserSync.tsx 58-61: the fetch rejects; the error is logged, no retry
FetchRejects ==
    /\ inFlight > 0
    /\ lastResponse' = FetchThrew
    /\ syncState' = "Failed"
    /\ inFlight' = inFlight - 1
    /\ UNCHANGED <<user, isLoading, hasSyncedRef, hasAttemptedRef, effectPending,
                   requests, lifecycle, reruns>>
    /\ UNCHANGED serverVars
    /\ UNCHANGED restVars

\* Navigation or reload: a fresh mount, useRef(false) again (UserSync.tsx 21-22);
\* a fetch still in flight is abandoned with the old instance
NewLifecycle ==
    /\ lifecycle < MaxLifecycles
    /\ lifecycle' = lifecycle + 1
    /\ \E u \in ClientUsers : \E l \in BOOLEAN : user' = u /\ isLoading' = l
    /\ hasSyncedRef' = FALSE
    /\ hasAttemptedRef' = FALSE
    /\ effectPending' = TRUE
    /\ inFlight' = 0
    /\ requests' = 0
    /\ syncState' = "Idle"
    /\ lastResponse' = NoResponse
    /\ reruns' = 0
    /\ UNCHANGED serverVars
    /\ UNCHANGED restVars

-----------------------------------------------------------------------------
(* DashboardPage (app/dashboard/page.tsx) and one page load *)

\* What auth0.getSession() can throw in the page: error.name and error.code
SessionErrors ==
    {[kind |-> "throws", name |-> "JWEInvalid", code |-> "ERR_JWE_INVALID"],
     [kind |-> "throws", name |-> "Error", code |-> "ERR_JWE_INVALID"],
     [kind |-> "throws", name |-> "Error", code |-> NULL]}

PlainUser(sub) ==
    [present |-> TRUE, sub |-> sub, email |-> IF Truthy(sub) THEN "a@b.com" ELSE NULL,
     name |-> NULL, nickname |-> NULL, picture |-> NULL]

SessionWith(at, id, u) ==
    [kind |-> "session", accessToken |-> at, access_token |-> NULL, token |-> NoToken,
     idToken |-> id, id_token |-> NULL, user |-> u]

\* The sessions a page load is made with: one shape per tier of the route.
PageSessions ==
    {SessionWith(NULL, NULL, NoUser),
     SessionWith("at_a", "id_a", PlainUser("idp|42")),
     SessionWith(NULL, "id_a", PlainUser("idp|42")),
     SessionWith(NULL, NULL, PlainUser("idp|42")),
     SessionWith(NULL, NULL, PlainUser(NULL))}

PageSessionOutcomes == SessionErrors \cup {NoSession} \cup PageSessions

AppBases == {"self", "other"}

\* page.tsx 13-19: the error of getSession() is swallowed
IsJweError(so) == so.name = "JWEInvalid" \/ so.code = "ERR_JWE_INVALID"

\* Mutant of AfterSession: the page is rendered without the render-time fetch.
AfterSessionSkipsSync(so) ==
    IF so.kind = "throws"
    THEN IF IsJweError(so) THEN "redirected" ELSE "error"
    ELSE IF so.kind = "null" \/ ~so.user.present THEN "redirected"
    ELSE "rendered"

\* Mutant of AfterSession: the test `if (!user)` of page.tsx 23 is missing.
AfterSessionNoRedirect(so) ==
    IF so.kind = "throws"
    THEN IF IsJweError(so) THEN "sync" ELSE "error"
    ELSE "sync"

\* page.tsx 10-25: where the page is after reading the session
AfterSession(so) ==
    IF so.kind = "throws"
    THEN IF IsJweError(so) THEN "redirected" ELSE "error"
    ELSE IF so.kind = "null" \/ ~so.user.present THEN "redirected"
    ELSE "sync"

\* page.tsx 30-32: the session that the route handler reads from the request
\* of the render-time fetch, whose options are { cache: "no-store" } only
RenderRequestSession(cookieSession) == NoSession

\* The browser's fetch("/api/sync-user") of UserSync.tsx 41 is same-origin and
\* carries the session cookie.
ClientRequestSession(cookieSession) == cookieSession

\* What fetch() hands to its caller for a NextResponse of the route handler
AsFetched(r) == HttpResponse(r.status, Json(r.body))

\* Mutant of AfterRenderSync: the body is decoded outside the try block.
AfterRenderSyncUnguardedJson(resp) ==
    IF resp.kind = "threw" THEN "rendered"
    ELSE IF ok(resp.status) /\ ~resp.body.json THEN "error"
    ELSE "rendered"

\* page.tsx 29-46: the page after the render-time fetch settled
AfterRenderSync(resp) ==
    IF resp.kind = "threw" THEN "rendered"
    ELSE IF ok(resp.status)
         THEN IF resp.body.json THEN "rendered" ELSE "rendered"
         ELSE "rendered"

\* page.tsx 10-32: the page reads the session, redirects, or starts the
\* render-time fetch and awaits it
PageGetSession ==
    /\ pagePc = "start"
    /\ \E so \in PageSessionOutcomes :
          /\ pageSession' = so
          /\ pagePc' = AfterSession(so)
          /\ renderRequests' = IF AfterSession(so) = "sync" THEN renderRequests + 1
                               ELSE renderRequests
    /\ UNCHANGED <<appBase, origin, renderOutcome, backendCalls>>
    /\ UNCHANGED serverVars
    /\ UNCHANGED clientVars
    /\ UNCHANGED <<tokenVars, backendVars, visitVars>>

\* The render-time request reaches GET /api/sync-user of this application
ServeRenderSync ==
    /\ appBase = "self"
    /\ pagePc = "sync" /\ renderOutcome = NoResponse
    /\ origin = "none" /\ pc = "idle"
    /\ origin' = "render"
    /\ route' = "sync-user"
    /\ session' = RenderRequestSession(pageSession)
    /\ pc' = "session"
    /\ UNCHANGED <<env, calls, response, result>>
    /\ UNCHANGED <<appBase, pagePc, pageSession, renderOutcome, renderRequests, backendCalls>>
    /\ UNCHANGED clientVars
    /\ UNCHANGED <<tokenVars, backendVars, visitVars>>

\* The route handler's response settles the awaited fetch and the page goes on
DeliverToPage ==
    /\ origin = "render" /\ pc = "done"
    /\ renderOutcome' = AsFetched(result)
    /\ pagePc' = AfterRenderSync(AsFetched(result))
    /\ backendCalls' = backendCalls + Len(calls)
    /\ origin' = "none"
    /\ pc' = "idle" /\ route' = "none" /\ session' = NoSession
    /\ calls' = <<>> /\ response' = NoResponse /\ result' = NoResult
    /\ UNCHANGED <<env, appBase, pageSession, renderRequests>>
    /\ UNCHANGED clientVars
    /\ UNCHANGED <<tokenVars, backendVars, visitVars>>

\* APP_BASE_URL names another server: any answer, or no connection
RenderSyncAnswered ==
    /\ appBase = "other"
    /\ pagePc = "sync" /\ renderOutcome = NoResponse
    /\ \E resp \in SyncUserAnswers \cup {FetchThrew} :
          /\ renderOutcome' = resp
          /\ pagePc' = AfterRenderSync(resp)
    /\ UNCHANGED <<appBase, pageSession, origin, renderRequests, backendCalls>>
    /\ UNCHANGED serverVars
    /\ UNCHANGED clientVars
    /\ UNCHANGED <<tokenVars, backendVars, visitVars>>

\* page.tsx 46-49: UserSync exists in the rendered page only
PageUseUserUpdate == pagePc = "rendered" /\ UseUserUpdate
PageEffectRerun == pagePc = "rendered" /\ EffectRerun
PageRunEffect == pagePc = "rendered" /\ RunEffect

\* The browser's request reaches GET /api/sync-user
ServeClientSync ==
    /\ pagePc = "rendered" /\ inFlight > 0
    /\ origin = "none" /\ pc = "idle"
    /\ origin' = "client"
    /\ route' = "sync-user"
    /\ session' = ClientRequestSession(pageSession)
    /\ pc' = "session"
    /\ UNCHANGED <<env, calls, response, result>>
    /\ UNCHANGED <<appBase, pagePc, pageSession, renderOutcome, renderRequests, backendCalls>>
    /\ UNCHANGED clientVars
    /\ UNCHANGED <<tokenVars, backendVars, visitVars>>

\* UserSync.tsx 45-57: the route handler's response resolves the browser's fetch
DeliverToClient ==
    /\ origin = "client" /\ pc = "done"
    /\ lastResponse' = AsFetched(result)
    /\ syncState' = Outcome(AsFetched(result))
    /\ hasSyncedRef' = (hasSyncedRef \/ Outcome(AsFetched(result)) = "Synced")
    /\ inFlight' = inFlight - 1
    /\ backendCalls' = backendCalls + Len(calls)
    /\ origin' = "none"
    /\ pc' = "idle" /\ route' = "none" /\ session' = NoSession
    /\ calls' = <<>> /\ response' = NoResponse /\ result' = NoResult
    /\ UNCHANGED <<env, appBase, pagePc, pageSession, renderOutcome, renderRequests>>
    /\ UNCHANGED <<user, isLoading, hasAttemptedRef, effectPending, requests,
                   lifecycle, reruns>>
    /\ UNCHANGED <<tokenVars, backendVars, visitVars>>

-----------------------------------------------------------------------------
(* The synthesized token as text (route.ts 111-123) and its decoding *)

\* The characters of the strings of the model, as code points. The display
\* name written "Zoe \"Z\"" has U+00EB for its third letter and two quotes.
Text ==
    ("" :> <<>>)
    @@ ("sub" :> <<115, 117, 98>>)
    @@ ("email" :> <<101, 109, 97, 105, 108>>)
    @@ ("name" :> <<110, 97, 109, 101>>)
    @@ ("picture" :> <<112, 105, 99, 116, 117, 114, 101>>)
    @@ ("iat" :> <<105, 97, 116>>)
    @@ ("exp" :> <<101, 120, 112>>)
    @@ ("alg" :> <<97, 108, 103>>)
    @@ ("typ" :> <<116, 121, 112>>)
    @@ ("none" :> <<110, 111, 110, 101>>)
    @@ ("JWT" :> <<74, 87, 84>>)
    @@ ("idp|42" :> <<105, 100, 112, 124, 52, 50>>)
    @@ ("a.b" :> <<97, 46, 98>>)
    @@ ("a@b.com" :> <<97, 64, 98, 46, 99, 111, 109>>)
    @@ ("Ann" :> <<65, 110, 110>>)
    @@ ("ann" :> <<97, 110, 110>>)
    @@ ("http://pic" :> <<104, 116, 116, 112, 58, 47, 47, 112, 105, 99>>)
    @@ ("Zoe \"Z\"" :> <<90, 111, 235, 32, 34, 90, 34>>)

\* Session users of the token synthesis: every profile, with a sub that
\* contains the separator and a name that needs escaping and two-byte UTF-8.
TokenUsers ==
    {[present |-> TRUE, sub |-> s, email |-> e, name |-> n, nickname |-> k, picture |-> p] :
        s \in {NULL, "", "idp|42", "a.b"}, e \in {NULL, "a@b.com"},
        n \in {NULL, "Ann", "Zoe \"Z\""}, k \in {NULL, "ann"}, p \in {NULL, "http://pic"}}

\* The two readings of Math.floor(Date.now() / 1000), route.ts 117-118
TokenClocks == {c \in (0..MaxNow) \X (0..(MaxNow + 1)) : c[2] \in {c[1], c[1] + 1}}

NoText == <<>>

RECURSIVE Flatten(_)
\* The concatenation of a sequence of sequences
Flatten(ss) ==
    IF Len(ss) = 0 THEN <<>>
    ELSE IF Len(ss) = 1 THEN ss[1]
    ELSE Flatten(SubSeq(ss, 1, Len(ss) \div 2))
            \o Flatten(SubSeq(ss, (Len(ss) \div 2) + 1, Len(ss)))

RECURSIVE Digits(_)
\* JSON.stringify of a non-negative integer
Digits(n) == IF n < 10 THEN <<48 + n>> ELSE Append(Digits(n \div 10), 48 + (n % 10))

\* JSON.stringify of one character of a string
JsonQuoteChar(c) ==
    IF c = 34 THEN <<92, 34>>
    ELSE IF c = 92 THEN <<92, 92>>
    ELSE IF c = 10 THEN <<92, 110>>
    ELSE <<c>>

\* JSON.stringify of a string
JsonQuote(cps) ==
    <<34>> \o Flatten([i \in 1..Len(cps) |-> JsonQuoteChar(cps[i])]) \o <<34>>

\* JSON.stringify of a string or null
JsonValue(v) == IF v = NULL THEN <<110, 117, 108, 108>> ELSE JsonQuote(Text[v])

\* "key":value
JsonMember(key, valueText) == JsonQuote(Text[key]) \o <<58>> \o valueText

RECURSIVE JsonJoin(_)
JsonJoin(members) ==
    IF Len(members) = 0 THEN <<>>
    ELSE IF Len(members) = 1 THEN members[1]
    ELSE members[1] \o <<44>> \o JsonJoin(Tail(members))

\* JSON.stringify of an object, members in insertion order
JsonObject(members) == <<123>> \o JsonJoin(members) \o <<125>>

\* route.ts 111: JSON.stringify({ alg: "none", typ: "JWT" })
StringifyHeader(h) ==
    JsonObject(<<JsonMember("alg", JsonValue(h.alg)), JsonMember("typ", JsonValue(h.typ))>>)

\* route.ts 112-119: JSON.stringify({ sub, email, name, picture, iat, exp })
StringifyPayload(p) ==
    JsonObject(<<JsonMember("sub", JsonValue(p.sub)),
                 JsonMember("email", JsonValue(p.email)),
                 JsonMember("name", JsonValue(p.name)),
                 JsonMember("picture", JsonValue(p.picture)),
                 JsonMember("iat", Digits(p.iat)),
                 JsonMember("exp", Digits(p.exp))>>)

\* Buffer.from(string): the UTF-8 bytes of code points below U+0800
Utf8(cps) ==
    Flatten([i \in 1..Len(cps) |->
                IF cps[i] < 128 THEN <<cps[i]>>
                ELSE <<192 + (cps[i] \div 64), 128 + (cps[i] % 64)>>])

\* The character of a six-bit value in the base64url alphabet
B64Char(n) ==
    IF n < 26 THEN 65 + n
    ELSE IF n < 52 THEN 97 + (n - 26)
    ELSE IF n < 62 THEN 48 + (n - 52)
    ELSE IF n = 62 THEN 45
    ELSE 95

RECURSIVE Base64Url(_)
\* toString('base64url'): three bytes to four characters, no padding
Base64Url(b) ==
    IF Len(b) = 0 THEN <<>>
    ELSE IF Len(b) = 1
    THEN <<B64Char(b[1] \div 4), B64Char((b[1] % 4) * 16)>>
    ELSE IF Len(b) = 2
    THEN <<B64Char(b[1] \div 4), B64Char((b[1] % 4) * 16 + (b[2] \div 16)),
           B64Char((b[2] % 16) * 4)>>
    ELSE <<B64Char(b[1] \div 4), B64Char((b[1] % 4) * 16 + (b[2] \div 16)),
           B64Char((b[2] % 16) * 4 + (b[3] \div 64)), B64Char(b[3] % 64)>>
         \o Base64Url(SubSeq(b, 4, Len(b)))

\* .replace(/=/g, '')
StripPadding(s) == SelectSeq(s, LAMBDA c : c # 61)

\* One segment: Buffer.from(json).toString('base64url').replace(/=/g, '')
Segment(json) == StripPadding(Base64Url(Utf8(json)))

\* Mutant of JwtText: the template lacks the dot before the empty signature.
JwtTextNoSignatureDot(tok) ==
    Segment(StringifyHeader(tok.header)) \o <<46>> \o Segment(StringifyPayload(tok.payload))

\* route.ts 123: `${header}.${payload}.`
JwtText(tok) ==
    Segment(StringifyHeader(tok.header)) \o <<46>>
        \o Segment(StringifyPayload(tok.payload)) \o <<46>> \o Text[tok.signature]

\* route.ts 105-123: the token is built for a session whose user has a sub
SynthesizeToken ==
    /\ tokenText = NoText
    /\ Truthy(tokenUser.sub)
    /\ tokenText' = JwtText(minimalToken(tokenUser, tokenClock[1], tokenClock[2]))
    /\ UNCHANGED <<tokenUser, tokenClock>>
    /\ UNCHANGED <<serverVars, clientVars, pageVars, backendVars, visitVars>>

\* The next request, of another session at another time
NextTokenRequest ==
    /\ tokenText # NoText
    /\ tokenText' = NoText
    /\ tokenUser' \in TokenUsers
    /\ tokenClock' \in TokenClocks
    /\ UNCHANGED <<serverVars, clientVars, pageVars, backendVars, visitVars>>

(* Decoding, as the receiver of the token does it *)

\* The k-th smallest member of a set of positions
Nth(S, k) == CHOOSE i \in S : Cardinality({j \in S : j < i}) = k - 1

\* token.split(sep): the pieces between consecutive separators
Split(s, sep) ==
    LET at == {i \in 1..Len(s) : s[i] = sep}
        \* the position of the k-th separator; 0 and Len(s) + 1 at the ends
        pos(k) == IF k = 0 THEN 0
                  ELSE IF k > Cardinality(at) THEN Len(s) + 1
                  ELSE Nth(at, k)
    IN  [k \in 1..(Cardinality(at) + 1) |-> SubSeq(s, pos(k - 1) + 1, pos(k) - 1)]

\* The six-bit value of a base64url character, -1 for any other character
B64Value(c) ==
    IF c \in 65..90 THEN c - 65
    ELSE IF c \in 97..122 THEN c - 71
    ELSE IF c \in 48..57 THEN c + 4
    ELSE IF c = 45 THEN 62
    ELSE IF c = 95 THEN 63
    ELSE -1

\* The bytes of a sequence of six-bit values: four values to three bytes,
\* two or three trailing values to one or two bytes
B64Bytes(v) ==
    [j \in 1..((Len(v) * 3) \div 4) |->
        LET base == 4 * ((j - 1) \div 3) IN
        CASE (j - 1) % 3 = 0 -> v[base + 1] * 4 + (v[base + 2] \div 16)
          [] (j - 1) % 3 = 1 -> (v[base + 2] % 16) * 16 + (v[base + 3] \div 4)
          [] (j - 1) % 3 = 2 -> (v[base + 3] % 4) * 64 + v[base + 4]]

\* base64url decoding of a segment without padding
Base64UrlDecode(seg) ==
    LET v == [i \in 1..Len(seg) |-> B64Value(seg[i])] IN
    IF (\E i \in 1..Len(seg) : v[i] < 0) \/ Len(seg) % 4 = 1
    THEN [ok |-> FALSE, bytes |-> <<>>]
    ELSE [ok |-> TRUE, bytes |-> B64Bytes(v)]

\* bytes.decode('utf-8') of one- and two-byte sequences
Utf8Decode(b) ==
    LET cont(i) == b[i] \in 128..191
        lead(i) == b[i] \in 192..223
        starts == {i \in 1..Len(b) : ~cont(i)}
        wellFormed ==
            \A i \in 1..Len(b) :
                \/ b[i] < 128
                \/ lead(i) /\ i < Len(b) /\ cont(i + 1)
                \/ cont(i) /\ i > 1 /\ lead(i - 1)
    IN  IF ~wellFormed THEN [ok |-> FALSE, cps |-> <<>>]
        ELSE [ok |-> TRUE,
              cps |-> [k \in 1..Cardinality(starts) |->
                          LET i == Nth(starts, k) IN
                          IF b[i] < 128 THEN b[i]
                          ELSE (b[i] - 192) * 64 + (b[i + 1] - 128)]]

JsonFail == [ok |-> FALSE, kind |-> "fail", str |-> <<>>, num |-> 0, next |-> 0]

RECURSIVE StringFrom(_, _, _)
\* The JSON string whose opening quote is before position i
StringFrom(t, i, acc) ==
    IF i > Len(t) THEN JsonFail
    ELSE IF t[i] = 34
    THEN [ok |-> TRUE, kind |-> "string", str |-> acc, num |-> 0, next |-> i + 1]
    ELSE IF t[i] = 92
    THEN IF i + 1 > Len(t) THEN JsonFail
         ELSE IF t[i + 1] \in {34, 92, 47} THEN StringFrom(t, i + 2, Append(acc, t[i + 1]))
         ELSE IF t[i + 1] = 110 THEN StringFrom(t, i + 2, Append(acc, 10))
         ELSE JsonFail
    ELSE IF t[i] < 32 THEN JsonFail
    ELSE StringFrom(t, i + 1, Append(acc, t[i]))

RECURSIVE NumberFrom(_, _, _)
NumberFrom(t, i, acc) ==
    IF i <= Len(t) /\ t[i] \in 48..57
    THEN NumberFrom(t, i + 1, acc * 10 + (t[i] - 48))
    ELSE [ok |-> TRUE, kind |-> "number", str |-> <<>>, num |-> acc, next |-> i]

\* The JSON value at position i: a string, a number or null
ValueAt(t, i) ==
    IF i > Len(t) THEN JsonFail
    ELSE IF t[i] = 34 THEN StringFrom(t, i + 1, <<>>)
    ELSE IF t[i] \in 48..57 THEN NumberFrom(t, i, 0)
    ELSE IF i + 3 <= Len(t) /\ SubSeq(t, i, i + 3) = <<110, 117, 108, 108>>
    THEN [ok |-> TRUE, kind |-> "null", str |-> <<>>, num |-> 0, next |-> i + 4]
    ELSE JsonFail

NotAMapping == [ok |-> FALSE, members |-> <<>>]

RECURSIVE MembersFrom(_, _, _)
MembersFrom(t, i, acc) ==
    IF i > Len(t) \/ t[i] # 34 THEN NotAMapping
    ELSE LET k == StringFrom(t, i + 1, <<>>) IN
         IF ~k.ok \/ k.next > Len(t) \/ t[k.next] # 58 THEN NotAMapping
         ELSE LET val == ValueAt(t, k.next + 1) IN
              IF ~val.ok \/ val.next > Len(t) THEN NotAMapping
              ELSE LET acc2 == Append(acc, [key |-> k.str, kind |-> val.kind,
                                            str |-> val.str, num |-> val.num]) IN
                   IF t[val.next] = 44 THEN MembersFrom(t, val.next + 1, acc2)
                   ELSE IF t[val.next] = 125 /\ val.next = Len(t)
                   THEN [ok |-> TRUE, members |-> acc2]
                   ELSE NotAMapping

\* json.loads of an object without white space
JsonParse(t) ==
    IF t = <<123, 125>> THEN [ok |-> TRUE, members |-> <<>>]
    ELSE IF Len(t) > 2 /\ t[1] = 123 THEN MembersFrom(t, 2, <<>>)
    ELSE NotAMapping

\* The mapping a segment decodes to
DecodeSegment(seg) ==
    LET b == Base64UrlDecode(seg) IN
    IF ~b.ok THEN NotAMapping
    ELSE LET u == Utf8Decode(b.bytes) IN
         IF ~u.ok THEN NotAMapping ELSE JsonParse(u.cps)

-----------------------------------------------------------------------------
(* The backend's get_current_user (AUTH0_PAYLOADS.md, Backend Logic) *)

\* The subject claims of the tokens
Subjects == {"idp|42", "idp|7"}

\* The claims of a decoded payload, NULL when the claim is absent
Payload(sub, email, name, nickname, picture) ==
    [sub |-> sub, email |-> email, name |-> name, nickname |-> nickname,
     picture |-> picture]

\* Decoded payloads: one without sub, one with an empty sub, a bare one for
\* one subject, and for the other subject a full profile, a changed one (with
\* another email), one with a nickname only, a bare one and one with empty
\* strings.
Payloads ==
    {Payload(NULL, "a@b.com", NULL, NULL, NULL),
     Payload("", "a@b.com", NULL, NULL, NULL),
     Payload("idp|7", "a@b.com", NULL, NULL, NULL),
     Payload("idp|42", "a@b.com", "Ann", NULL, "p1"),
     Payload("idp|42", "bob@b.com", "Bob", "ann", "p2"),
     Payload("idp|42", "a@b.com", NULL, "ann", "p1"),
     Payload("idp|42", "a@b.com", NULL, NULL, NULL),
     Payload("idp|42", "a@b.com", "", NULL, "")}

\* The values of sub with which step 3 lets a payload pass
SubClaims == {p.sub : p \in {q \in Payloads : q.sub # NULL}}

\* Bearer texts that are not tokens: no dot, "a.b", "a.b.c.d", and "a.b."
\* whose three segments do not decode
BadTokens ==
    {<<>>, <<97, 46, 98>>, <<97, 46, 98, 46, 99, 46, 100>>, <<97, 46, 98, 46>>}

\* Step 2: jwt.decode accepts a text of three segments whose header and
\* payload segments decode to mappings
Decodable(token) ==
    /\ Len(Split(token, 46)) = 3
    /\ DecodeSegment(Split(token, 46)[1]).ok
    /\ DecodeSegment(Split(token, 46)[2]).ok

Workers == {1, 2}

IdleWorker == [pc |-> "idle", payload |-> NULL, found |-> 0, start |-> 0]

NoHistory == [n |-> 0, first |-> <<0, 0>>, last |-> <<0, 0>>, failed |-> FALSE]

\* The call answered last: its status, subject, whether it found the user,
\* and whether its token gave a name and a picture
Done(status, p, found) ==
    [status |-> status, sub |-> p.sub, found |-> found,
     nameGiven |-> Truthy(p.name), nicknameGiven |-> Truthy(p.nickname),
     pictureGiven |-> Truthy(p.picture)]

NoneDone == [status |-> 0, sub |-> NULL, found |-> FALSE, nameGiven |-> FALSE,
             nicknameGiven |-> FALSE, pictureGiven |-> FALSE]

\* Step 3: name = payload.get("name") or payload.get("nickname")
IncomingName(p) == Or(p.name, p.nickname)

\* Step 4: the rows db.query(User).filter(User.auth0_id == auth0_id).first()
\* can return: 0 stands for None
FirstUser(rows, auth0_id) ==
    IF \E r \in rows : r.auth0_id = auth0_id
    THEN {r.id : r \in {x \in rows : x.auth0_id = auth0_id}}
    ELSE {0}

\* Step 5a: User(id=uuid4(), ..., last_login=now, created_at=now, updated_at=now)
NewUser(id, p, t1, t2, t3) ==
    [id |-> id, auth0_id |-> p.sub, email |-> p.email, name |-> IncomingName(p),
     picture |-> p.picture, last_login |-> t1, created_at |-> t2, updated_at |-> t3]

\* Mutant of UpdatedUser: last_login is not refreshed.
UpdatedUserKeepsLastLogin(r, p, t) ==
    [r EXCEPT !.picture = IF Truthy(p.picture) /\ r.picture # p.picture
                          THEN p.picture ELSE r.picture,
              !.name = IF Truthy(IncomingName(p)) /\ r.name # IncomingName(p)
                       THEN IncomingName(p) ELSE r.name]

\* Mutant of UpdatedUser: the email of the token is stored as well.
UpdatedUserSetsEmail(r, p, t) ==
    [r EXCEPT !.last_login = t, !.email = p.email,
              !.picture = IF Truthy(p.picture) /\ r.picture # p.picture
                          THEN p.picture ELSE r.picture,
              !.name = IF Truthy(IncomingName(p)) /\ r.name # IncomingName(p)
                       THEN IncomingName(p) ELSE r.name]

\* Mutant of UpdatedUser: name and picture are assigned whatever they are.
UpdatedUserOverwrites(r, p, t) ==
    [r EXCEPT !.last_login = t, !.picture = p.picture, !.name = IncomingName(p)]

\* Step 5b: last_login, then picture and name if given and changed
UpdatedUser(r, p, t) ==
    [r EXCEPT !.last_login = t,
              !.picture = IF Truthy(p.picture) /\ r.picture # p.picture
                          THEN p.picture ELSE r.picture,
              !.name = IF Truthy(IncomingName(p)) /\ r.name # IncomingName(p)
                       THEN IncomingName(p) ELSE r.name]

\* A later reading of datetime.now(): the same instant or the next
ReadAfter(t) == {u \in {t, t + 1} : u <= MaxClock}

\* db.add(user); db.commit() when the lookup found nothing. The users table
\* is not part of the repository: if a row of the subject was committed
\* meanwhile the commit stores a second row, or fails on a unique index.
InsertOutcomes(rows, auth0_id) ==
    IF \E r \in rows : r.auth0_id = auth0_id
    THEN {"inserted", "IntegrityError"}
    ELSE {"inserted"}

\* The request of worker w has been answered with this status at time t.
Complete(w, status, t) ==
    LET p == worker[w].payload
        span == <<worker[w].start, t>>
    IN  /\ history' = [history EXCEPT ![p.sub] =
                          [n |-> @.n + 1,
                           first |-> IF @.n = 0 THEN span ELSE @.first,
                           last |-> span,
                           failed |-> @.failed \/ status # 200]]
        /\ lastDone' = Done(status, p, worker[w].found # 0)
        /\ worker' = [worker EXCEPT ![w] = IdleWorker]

\* Steps 1-3: the token is decoded; without sub the answer is 401
Receive(w, p) ==
    /\ worker[w].pc = "idle"
    /\ received < MaxRequests
    /\ received' = received + 1
    /\ IF p.sub = NULL
       THEN /\ lastDone' = Done(401, p, FALSE)
            /\ UNCHANGED worker
       ELSE /\ worker' = [worker EXCEPT ![w] =
                             [pc |-> "lookup", payload |-> p, found |-> 0,
                              start |-> utcnow]]
            /\ UNCHANGED lastDone
    /\ UNCHANGED <<db, utcnow, nextUuid, history>>
    /\ UNCHANGED <<serverVars, clientVars, pageVars, tokenVars, visitVars>>

\* Step 2 fails: the bearer text cannot be decoded and the answer is 401
ReceiveUndecodable ==
    /\ received < MaxRequests
    /\ \E token \in BadTokens : ~Decodable(token)
    /\ received' = received + 1
    /\ lastDone' = Done(401, Payload(NULL, NULL, NULL, NULL, NULL), FALSE)
    /\ UNCHANGED <<db, worker, utcnow, nextUuid, history>>
    /\ UNCHANGED <<serverVars, clientVars, pageVars, tokenVars, visitVars>>

\* Step 4: the lookup by auth0_id
Lookup(w) ==
    /\ worker[w].pc = "lookup"
    /\ \E id \in FirstUser(db, worker[w].payload.sub) :
          worker' = [worker EXCEPT ![w].pc = "write", ![w].found = id]
    /\ UNCHANGED <<db, utcnow, nextUuid, history, lastDone, received>>
    /\ UNCHANGED <<serverVars, clientVars, pageVars, tokenVars, visitVars>>

\* Steps 5a, 5b and 6: create or update, commit, return
Write(w) ==
    /\ worker[w].pc = "write"
    /\ LET p == worker[w].payload IN
       IF worker[w].found = 0
       THEN \E t2 \in ReadAfter(utcnow) : \E t3 \in ReadAfter(t2) :
            \E outcome \in InsertOutcomes(db, p.sub) :
               /\ db' = IF outcome = "inserted"
                        THEN db \cup {NewUser(nextUuid, p, utcnow, t2, t3)}
                        ELSE db
               /\ nextUuid' = nextUuid + 1
               /\ utcnow' = t3
               /\ Complete(w, IF outcome = "inserted" THEN 200 ELSE 500, t3)
       ELSE /\ db' = {IF r.id = worker[w].found THEN UpdatedUser(r, p, utcnow) ELSE r :
                        r \in db}
            /\ UNCHANGED <<nextUuid, utcnow>>
            /\ Complete(w, 200, utcnow)
    /\ UNCHANGED received
    /\ UNCHANGED <<serverVars, clientVars, pageVars, tokenVars, visitVars>>

\* Time passes
Tick ==
    /\ utcnow < MaxClock
    /\ utcnow' = utcnow + 1
    /\ UNCHANGED <<db, worker, nextUuid, history, lastDone, received>>
    /\ UNCHANGED <<serverVars, clientVars, pageVars, tokenVars, visitVars>>

\* A request arrives at any time / only when no other is being processed
ReceiveAny ==
    \E w \in Workers : \E p \in Payloads :
        /\ \A v \in Workers : v < w => worker[v].pc # "idle"
        /\ Receive(w, p)
ReceiveAlone ==
    /\ \A w \in Workers : worker[w].pc = "idle"
    /\ \E p \in Payloads : Receive(1, p)
LookupAny == \E w \in Workers : Lookup(w)
WriteAny == \E w \in Workers : Write(w)

-----------------------------------------------------------------------------
(* A page request: middleware (middleware.ts), then DashboardPage or Home *)

\* The messages of the errors, as characters
ErrorText ==
    ("Invalid Compact JWE" :> <<73, 110, 118, 97, 108, 105, 100, 32, 67, 111, 109, 112,
                                97, 99, 116, 32, 74, 87, 69>>)
    @@ ("decryption operation failed" :> <<100, 101, 99, 114, 121, 112, 116, 105, 111,
                                          110, 32, 111, 112, 101, 114, 97, 116, 105, 111,
                                          110, 32, 102, 97, 105, 108, 101, 100>>)
    @@ ("boom" :> <<98, 111, 111, 109>>)

\* What auth0.middleware() and auth0.getSession() throw on a request: the two
\* errors of decrypting the session cookie (a malformed JWE, a JWE that does
\* not decrypt) and an error that has nothing to do with the session. The
\* field jwe tells which it is.
CookieErrors ==
    {[kind |-> "throws", name |-> "JWEInvalid", code |-> "ERR_JWE_INVALID",
      message |-> "Invalid Compact JWE", jwe |-> TRUE],
     [kind |-> "throws", name |-> "JWEDecryptionFailed",
      code |-> "ERR_JWE_DECRYPTION_FAILED",
      message |-> "decryption operation failed", jwe |-> TRUE],
     [kind |-> "throws", name |-> "Error", code |-> NULL, message |-> "boom",
      jwe |-> FALSE]}

\* What reading the session cookie of a request yields
Cookies == CookieErrors \cup {NoSession} \cup PageSessions

Paths == {"/", "/dashboard"}

\* String.prototype.includes
Includes(s, part) ==
    \E i \in 1..(Len(s) + 1 - Len(part)) : SubSeq(s, i, i + Len(part) - 1) = part

\* middleware.ts 10: error?.name === 'JWEInvalid' || error?.message?.includes('JWE')
MiddlewareHandles(e) ==
    e.name = "JWEInvalid" \/ Includes(ErrorText[e.message], <<74, 87, 69>>)

\* page.tsx 73-87, Home: every error inside the try is swallowed, the one
\* redirect("/dashboard") throws to leave the page included, so the landing
\* page is returned in every case
HomeResult(so) ==
    IF so.kind = "throws" THEN "landing"
    ELSE IF so.kind = "session" /\ so.user.present THEN "landing"
    ELSE "landing"

\* middleware.ts 5-22
Middleware ==
    /\ stage = "middleware"
    /\ IF cookie.kind # "throws"
       THEN stage' = "page" /\ UNCHANGED <<cleared, answer>>
       ELSE IF MiddlewareHandles(cookie)
       THEN stage' = "page" /\ cleared' = TRUE /\ UNCHANGED answer
       ELSE stage' = "done" /\ answer' = "error" /\ UNCHANGED cleared
    /\ UNCHANGED <<cookie, path, visits>>
    /\ UNCHANGED <<serverVars, clientVars, pageVars, tokenVars, backendVars>>

\* page.tsx 6-25 (DashboardPage up to the sync attempt) and 73-87 (Home)
RenderPage ==
    /\ stage = "page"
    /\ stage' = "done"
    /\ answer' = IF path = "/dashboard" THEN AfterSession(cookie) ELSE HomeResult(cookie)
    /\ UNCHANGED <<cookie, path, cleared, visits>>
    /\ UNCHANGED <<serverVars, clientVars, pageVars, tokenVars, backendVars>>

\* The browser's next request: without session cookie if the last response
\* deleted it, else with the same one, or with the session of a new login
NextVisit ==
    /\ stage = "done"
    /\ visits < MaxVisits
    /\ visits' = visits + 1
    /\ path' \in Paths
    /\ cookie' \in (IF cleared THEN {NoSession} ELSE {cookie}) \cup PageSessions
    /\ stage' = "middleware" /\ cleared' = FALSE /\ answer' = "none"
    /\ UNCHANGED <<serverVars, clientVars, pageVars, tokenVars, backendVars>>

-----------------------------------------------------------------------------
(* Specifications *)

ServerIdle ==
    /\ route = "none" /\ pc = "idle" /\ session = NoSession
    /\ calls = <<>> /\ response = NoResponse /\ result = NoResult

ClientUnmounted ==
    /\ user = NULL /\ isLoading = TRUE
    /\ hasSyncedRef = FALSE /\ hasAttemptedRef = FALSE
    /\ effectPending = TRUE /\ inFlight = 0 /\ requests = 0
    /\ syncState = "Idle" /\ lastResponse = NoResponse
    /\ lifecycle = 1 /\ reruns = 0

\* No page load is in progress.
PageIdle ==
    /\ appBase = "self" /\ pagePc = "start" /\ pageSession = NoSession
    /\ origin = "none" /\ renderOutcome = NoResponse
    /\ renderRequests = 0 /\ backendCalls = 0

\* No token is being synthesized.
TokenIdle ==
    /\ tokenUser = NoUser /\ tokenClock = <<0, 0>> /\ tokenText = NoText

\* The backend has no user and no request.
BackendIdle ==
    /\ db = {} /\ worker = [w \in Workers |-> IdleWorker]
    /\ utcnow = 0 /\ nextUuid = 1
    /\ history = [s \in SubClaims |-> NoHistory]
    /\ lastDone = NoneDone /\ received = 0

\* No page request is being served.
VisitIdle ==
    /\ cookie = NoSession /\ path = "/" /\ stage = "done"
    /\ cleared = FALSE /\ answer = "none" /\ visits = 0

Init ==
    /\ env \in Envs
    /\ ServerIdle
    /\ ClientUnmounted
    /\ PageIdle
    /\ TokenIdle
    /\ BackendIdle
    /\ VisitIdle

Next ==
    \/ SyncUserEnter
    \/ SyncUserSelect
    \/ BackendUnreachable
    \/ BackendResponds
    \/ AuthTokenEnter
    \/ AuthTokenRun
    \/ Finish

Spec == Init /\ [][Next]_vars

NextClient ==
    \/ UseUserUpdate
    \/ EffectRerun
    \/ RunEffect
    \/ FetchResolves
    \/ FetchRejects
    \/ NewLifecycle

SpecClient == Init /\ [][NextClient]_vars

InitPage ==
    /\ env \in {e \in Envs : e.BACKEND_URL = NULL}
    /\ ServerIdle
    /\ ClientUnmounted
    /\ appBase \in AppBases /\ pagePc = "start" /\ pageSession = NoSession
    /\ origin = "none" /\ renderOutcome = NoResponse
    /\ renderRequests = 0 /\ backendCalls = 0
    /\ TokenIdle
    /\ BackendIdle
    /\ VisitIdle

NextPage ==
    \/ PageGetSession
    \/ ServeRenderSync
    \/ RenderSyncAnswered
    \/ SyncUserSelect
    \/ BackendUnreachable
    \/ BackendResponds
    \/ DeliverToPage
    \/ PageUseUserUpdate
    \/ PageEffectRerun
    \/ PageRunEffect
    \/ ServeClientSync
    \/ DeliverToClient

\* One load of the dashboard page: server render, then the mounted UserSync
SpecPage == InitPage /\ [][NextPage]_vars

\* The route handler at the point where it synthesizes a token
InitToken ==
    /\ env \in {e \in Envs : e.BACKEND_URL = NULL /\ e.NEXT_PUBLIC_BACKEND_URL = NULL}
    /\ ServerIdle
    /\ ClientUnmounted
    /\ PageIdle
    /\ BackendIdle
    /\ VisitIdle
    /\ tokenUser \in TokenUsers /\ tokenClock \in TokenClocks /\ tokenText = NoText

NextToken ==
    \/ SynthesizeToken
    \/ NextTokenRequest

SpecToken == InitToken /\ [][NextToken]_vars

InitBackend ==
    /\ env \in {e \in Envs : e.BACKEND_URL = NULL /\ e.NEXT_PUBLIC_BACKEND_URL = NULL}
    /\ ServerIdle
    /\ ClientUnmounted
    /\ PageIdle
    /\ TokenIdle
    /\ BackendIdle
    /\ VisitIdle

NextBackend ==
    \/ ReceiveAny
    \/ ReceiveUndecodable
    \/ LookupAny
    \/ WriteAny
    \/ Tick

\* The backend serving requests concurrently
SpecBackend == InitBackend /\ [][NextBackend]_vars

NextBackendSeq ==
    \/ ReceiveAlone
    \/ ReceiveUndecodable
    \/ LookupAny
    \/ WriteAny
    \/ Tick

\* The backend serving one request after the other
SpecBackendSeq == InitBackend /\ [][NextBackendSeq]_vars

InitVisit ==
    /\ env \in {e \in Envs : e.BACKEND_URL = NULL /\ e.NEXT_PUBLIC_BACKEND_URL = NULL}
    /\ ServerIdle
    /\ ClientUnmounted
    /\ PageIdle
    /\ TokenIdle
    /\ BackendIdle
    /\ cookie \in Cookies /\ path \in Paths /\ stage = "middleware"
    /\ cleared = FALSE /\ answer = "none" /\ visits = 1

NextVisits ==
    \/ Middleware
    \/ RenderPage
    \/ NextVisit

\* Page requests of one browser, each through the middleware to its page
SpecVisit == InitVisit /\ [][NextVisits]_vars

-----------------------------------------------------------------------------
(* Vocabulary of the properties *)

\* The handler of /api/sync-user has passed credential selection / has returned.
SyncSelected == route = "sync-user" /\ pc \in {"fetch", "done"}
SyncDone == route = "sync-user" /\ pc = "done"
TokenDone == route = "auth-token" /\ pc = "done"

\* A session with an authenticated principal.
HasPrincipal(s) == s.kind = "session" /\ s.user.present

\* The credentials a session shape holds, by tier.
ApiCredentials(s) ==
    {v \in {s.accessToken, s.access_token,
            IF s.token.present THEN s.token.access_token ELSE NULL} : Truthy(v)}
IdentityCredentials(s) == {v \in {s.idToken, s.id_token} : Truthy(v)}
HasSub(s) == Truthy(s.user.sub)

\* The highest-preference tier for which the session holds a credential.
BestTier(s) ==
    IF ApiCredentials(s) # {} THEN "access"
    ELSE IF IdentityCredentials(s) # {} THEN "id"
    ELSE IF HasSub(s) THEN "session"
    ELSE "none"

\* The base URL the deployment configures for the backend.
ConfiguredBaseUrl ==
    IF Truthy(env.NEXT_PUBLIC_BACKEND_URL) THEN env.NEXT_PUBLIC_BACKEND_URL
    ELSE IF Truthy(env.BACKEND_URL) THEN env.BACKEND_URL
    ELSE "http://localhost:8000"

\* Outcomes of /api/sync-user as its callers read them (UserSync.tsx 45-57).
IsSynced(r) == ok(r.status) /\ "synced" \in DOMAIN r.body /\ r.body.synced = TRUE
IsDeferred(r) == ok(r.status) /\ "synced" \in DOMAIN r.body /\ r.body.synced = FALSE
IsFailed(r) == r.status >= 400

BackendAnswered == response.kind = "http"
BackendRejected == response.kind = "http" /\ ~ok(response.status)
BackendAccepted == response.kind = "http" /\ ok(response.status) /\ response.body.json

-----------------------------------------------------------------------------
(* C1 *)

\* C1: credential preference order of GET /api/sync-user. For every session with
\* a principal, once the handler has selected: an API credential, if present, is
\* the bearer sent; otherwise an identity credential, if present, is the bearer
\* sent; otherwise, if sub is present, a synthesized credential carrying that sub
\* is sent; otherwise nothing is sent. Without a principal nothing is sent.
C1_PreferenceOrder ==
    SyncSelected /\ session.kind # "throws" =>
        IF ~HasPrincipal(session) THEN calls = <<>>
        ELSE IF ApiCredentials(session) # {}
        THEN /\ Len(calls) = 1
             /\ calls[1].bearer.kind = "opaque"
             /\ calls[1].bearer.value \in ApiCredentials(session)
        ELSE IF IdentityCredentials(session) # {}
        THEN /\ Len(calls) = 1
             /\ calls[1].bearer.kind = "opaque"
             /\ calls[1].bearer.value \in IdentityCredentials(session)
        ELSE IF HasSub(session)
        THEN /\ Len(calls) = 1
             /\ calls[1].bearer.kind = "jwt"
             /\ calls[1].bearer.payload.sub = session.user.sub
        ELSE calls = <<>>

\* All three tiers are available and the API credential is the bearer in flight.
C1_Witness ==
    /\ route = "sync-user" /\ pc = "fetch"
    /\ HasPrincipal(session)
    /\ ApiCredentials(session) # {} /\ IdentityCredentials(session) # {} /\ HasSub(session)
    /\ calls[1].bearer.kind = "opaque"
    /\ calls[1].bearer.value \in ApiCredentials(session)

-----------------------------------------------------------------------------
(* C2 *)

\* No credential can be selected: no session, no principal, or a principal with
\* neither token nor sub.
NoCredential(s) ==
    \/ s.kind = "null"
    \/ s.kind = "session" /\ ~s.user.present
    \/ HasPrincipal(s) /\ BestTier(s) = "none"

\* C2 as stated: whenever no credential can be selected, the sync returns a
\* Deferred answer and makes no backend call.
C2_DeferredWhenNoCredential ==
    SyncDone /\ NoCredential(session) => IsDeferred(result) /\ calls = <<>>

\* C2 amended: whenever no credential can be selected no backend call is made;
\* a principal with neither token nor sub gets the Deferred answer (200,
\* synced = false), and a request without session or principal is answered
\* 401 "Not authenticated" with no synced field.
C2_NoCallWhenNoCredential ==
    SyncDone /\ NoCredential(session) =>
        /\ calls = <<>>
        /\ response = NoResponse
        /\ IF HasPrincipal(session)
           THEN IsDeferred(result) /\ result.status = 200
           ELSE /\ result.status = 401
                /\ "synced" \notin DOMAIN result.body
                /\ result.body.error = "Not authenticated"

\* A principal without tokens and without sub was answered Deferred.
C2_Witness ==
    /\ SyncDone /\ HasPrincipal(session) /\ BestTier(session) = "none"
    /\ IsDeferred(result) /\ calls = <<>>

-----------------------------------------------------------------------------
(* C3 *)

\* C3: every invocation of GET /api/sync-user issues at most one request to the
\* backend, to <backend>/api/v1/auth/me, on every path; after the backend has
\* answered or the fetch has failed there is still exactly that one request.
C3_AtMostOneBackendCall ==
    route = "sync-user" =>
        /\ Len(calls) <= 1
        /\ \A i \in 1..Len(calls) : calls[i].url = ConfiguredBaseUrl \o "/api/v1/auth/me"
        /\ (pc = "done" /\ response # NoResponse => Len(calls) = 1)
        /\ (pc = "fetch" => Len(calls) = 1)

\* The backend answered 401 and the handler returned with one request made.
C3_Witness ==
    /\ SyncDone /\ BackendAnswered /\ response.status = 401
    /\ Len(calls) = 1

-----------------------------------------------------------------------------
(* C4 *)

\* A credential of a lower tier than the one that was sent is available.
LowerTierAvailable(s, tier) ==
    \/ tier = "access" /\ (IdentityCredentials(s) # {} \/ HasSub(s))
    \/ tier = "id" /\ HasSub(s)

\* C4 as stated: when the backend answers 401 to a higher-preference credential
\* and a next credential is available, the next credential is tried.
C4_CascadeOnAuthFailure ==
    /\ SyncDone /\ BackendAnswered /\ response.status = 401
    /\ LowerTierAvailable(session, calls[1].tier)
    => Len(calls) >= 2

\* C4 amended: a sync attempt sends only the highest-preference available
\* credential, in exactly one network call; whatever the backend answers, a 401
\* included, no further credential is tried and the answer's status is returned.
C4_OnlyBestTierTried ==
    SyncDone /\ response # NoResponse =>
        /\ Len(calls) = 1
        /\ calls[1].tier = BestTier(session)
        /\ (BackendRejected => result.status = response.status)

\* The backend answered 401 to the API credential while an identity credential
\* was available, and only the one call was made.
C4_Witness ==
    /\ SyncDone /\ BackendAnswered /\ response.status = 401
    /\ calls[1].tier = "access" /\ IdentityCredentials(session) # {}
    /\ Len(calls) = 1 /\ result.status = 401

-----------------------------------------------------------------------------
(* C5 *)

\* The method tags the specification names, by tier.
SpecMethodTag(tier) ==
    CASE tier = "access"  -> "api_credential"
      [] tier = "id"      -> "identity_credential"
      [] tier = "session" -> "session_data"

\* C5 as stated: every successful sync answers 200 with synced = true, the
\* backend's record as user, and a method tag among api_credential,
\* identity_credential, session_data that identifies the tier.
C5_MethodTagOfSpec ==
    SyncDone /\ BackendAccepted =>
        /\ result.status = 200
        /\ IsSynced(result)
        /\ result.body.user = response.body.value
        /\ "method" \in DOMAIN result.body
        /\ result.body.method = SpecMethodTag(calls[1].tier)

\* C5 amended: every successful sync answers 200 with synced = true and the
\* backend's record as user; the method tag is "id_token" in the identity tier,
\* "session_data" in the synthesized tier and absent in the API tier.
C5_SyncedAnswer ==
    SyncDone /\ BackendAccepted =>
        /\ result.status = 200
        /\ IsSynced(result)
        /\ result.body.user = response.body.value
        /\ CASE calls[1].tier = "access"  -> "method" \notin DOMAIN result.body
             [] calls[1].tier = "id"      ->
                    "method" \in DOMAIN result.body /\ result.body.method = "id_token"
             [] calls[1].tier = "session" ->
                    "method" \in DOMAIN result.body /\ result.body.method = "session_data"

\* A sync through the API credential succeeded on a 201 of the backend.
C5_Witness ==
    /\ SyncDone /\ BackendAccepted /\ response.status = 201
    /\ calls[1].tier = "access"
    /\ IsSynced(result) /\ result.status = 200

-----------------------------------------------------------------------------
(* C6 *)

\* The backend's body carries a detail message.
HasDetail(body) ==
    body.json /\ "detail" \in DOMAIN body.value /\ body.value.detail # ""

\* C6 as stated: on a non-2xx answer, in every tier, the result is Failed with
\* synced = false, the backend's status, and as error the backend's detail or
\* "HTTP <status>" when the body has no detail; no further backend call.
C6_DetailOrHttpStatus ==
    SyncDone /\ BackendRejected =>
        /\ result.status = response.status
        /\ "synced" \in DOMAIN result.body /\ result.body.synced = FALSE
        /\ result.body.error =
              (IF HasDetail(response.body) THEN response.body.value.detail
               ELSE "HTTP " \o ToString(response.status))
        /\ Len(calls) = 1

\* C6 amended: as stated, except that the error is "Unknown error" when the
\* body of the answer cannot be decoded as JSON ("HTTP <status>" is used when
\* the decoded body has no non-empty detail).
C6_RejectedAnswer ==
    SyncDone /\ BackendRejected =>
        /\ result.status = response.status
        /\ "synced" \in DOMAIN result.body /\ result.body.synced = FALSE
        /\ result.body.error =
              (IF ~response.body.json THEN "Unknown error"
               ELSE IF HasDetail(response.body) THEN response.body.value.detail
               ELSE "HTTP " \o ToString(response.status))
        /\ Len(calls) = 1

\* The backend answered 500 without a JSON body to a synthesized credential.
C6_Witness ==
    /\ SyncDone /\ BackendRejected /\ response.status = 500
    /\ ~response.body.json /\ calls[1].tier = "session"
    /\ result.status = 500 /\ result.body.error = "Unknown error"

-----------------------------------------------------------------------------
(* C7 *)

\* C7: when the fetch throws, in every tier the result is Failed and carries a
\* hint that the backend may not be running, naming the configured base URL,
\* the one the failed call was sent to.
C7_HintNamesConfiguredUrl ==
    SyncDone /\ response = FetchThrew =>
        /\ IsFailed(result)
        /\ "hint" \in DOMAIN result.body
        /\ result.body.hint.text = "Make sure the backend is running on "
        /\ result.body.hint.url = ConfiguredBaseUrl
        /\ result.body.hint.url \o "/api/v1/auth/me" = calls[1].url

-----------------------------------------------------------------------------
(* C8 *)

\* C8 as stated: the handler always returns a structured result, and every
\* result that is not a success has synced = false together with an error.
C8_SyncedFalseWithError ==
    SyncDone =>
        /\ result # NoResult
        /\ (~IsSynced(result) =>
              /\ "synced" \in DOMAIN result.body /\ result.body.synced = FALSE
              /\ "error" \in DOMAIN result.body)

\* C8 amended: the handler never throws, on every path it returns a structured
\* result. A result after a backend call or an exception that is not a success
\* has synced = false and an error string; the Deferred result has synced =
\* false with a message and a hint but no error; the answer to a request
\* without session or principal is 401 with an error string and no synced.
C8_StructuredResult ==
    /\ (route = "sync-user" /\ pc = "session" => ENABLED SyncUserSelect)
    /\ (route = "sync-user" /\ pc = "fetch" => ENABLED BackendResponds /\ ENABLED BackendUnreachable)
    /\ SyncDone =>
        /\ result # NoResult
        /\ result.status \in (IF BackendRejected THEN {response.status} ELSE {200, 401, 500})
        /\ IF IsSynced(result) THEN BackendAccepted
           ELSE IF session.kind # "throws" /\ NoCredential(session)
           THEN IF HasPrincipal(session)
                THEN /\ result.body.synced = FALSE
                     /\ "message" \in DOMAIN result.body /\ "hint" \in DOMAIN result.body
                     /\ "error" \notin DOMAIN result.body
                ELSE /\ "synced" \notin DOMAIN result.body
                     /\ result.status = 401 /\ "error" \in DOMAIN result.body
           ELSE /\ "synced" \in DOMAIN result.body /\ result.body.synced = FALSE
                /\ "error" \in DOMAIN result.body /\ Truthy(result.body.error)
                /\ IsFailed(result)

\* The session read failed and the handler still answered, with synced = false.
C8_Witness ==
    /\ SyncDone /\ session.kind = "throws"
    /\ result.status = 500 /\ result.body.synced = FALSE
    /\ result.body.error = "Failed to sync user"

-----------------------------------------------------------------------------
(* C9 *)

\* The session, if any, holds no API credential.
NoApiCredential(s) == s.kind = "null" \/ (s.kind = "session" /\ ApiCredentials(s) = {})

\* C9 as stated: GET /api/auth-token answers 200 whenever no credential is
\* available, with accessToken = null, and 200 with the token when one exists.
C9_Always200 ==
    TokenDone /\ session.kind # "throws" =>
        /\ result.status = 200
        /\ "accessToken" \in DOMAIN result.body
        /\ IF NoApiCredential(session) THEN result.body.accessToken = NULL
           ELSE result.body.accessToken \in ApiCredentials(session)

\* C9 amended: GET /api/auth-token answers 200 whenever a session exists, with
\* accessToken = null when the session holds no API credential and with the
\* access token when one exists; a request without session is answered 401.
C9_200WhenSessionExists ==
    TokenDone /\ session.kind # "throws" =>
        IF session.kind = "null"
        THEN result.status = 401 /\ "accessToken" \notin DOMAIN result.body
        ELSE /\ result.status = 200
             /\ "accessToken" \in DOMAIN result.body
             /\ IF NoApiCredential(session) THEN result.body.accessToken = NULL
                ELSE result.body.accessToken \in ApiCredentials(session)

\* A session with an identity credential but no API credential was answered
\* 200 with accessToken = null.
C9_Witness ==
    /\ TokenDone /\ session.kind = "session"
    /\ ApiCredentials(session) = {} /\ IdentityCredentials(session) # {}
    /\ result.status = 200 /\ result.body.accessToken = NULL

-----------------------------------------------------------------------------
(* C10 *)

Terminal == {"Synced", "Deferred", "Failed"}

\* C10: within one lifetime of UserSync at most one request to /api/sync-user
\* is issued, whatever effect runs happen; once the attempt has ended Synced,
\* Deferred or Failed the attempted flag stays set, nothing is in flight and
\* the state is left only by a new lifecycle, which starts with the flags and
\* the request count reset.
C10_AtMostOnceClientSync ==
    [][ /\ requests <= 1
        /\ requests' <= 1
        /\ (requests' > requests =>
               \/ ~hasAttemptedRef /\ ~hasSyncedRef /\ syncState = "Idle" /\ requests = 0
               \/ lifecycle' # lifecycle)
        /\ (syncState \in Terminal /\ lifecycle' = lifecycle =>
               /\ syncState' \in Terminal
               /\ requests' = requests
               /\ hasAttemptedRef /\ hasAttemptedRef')
        /\ (lifecycle' # lifecycle =>
               requests' = 0 /\ ~hasAttemptedRef' /\ ~hasSyncedRef' /\ syncState' = "Idle")
      ]_vars

\* In a second lifecycle, after the effect ran again on the same instance, the
\* attempt has ended Failed and exactly one request was issued.
C10_Witness ==
    /\ lifecycle = 2 /\ reruns >= 1 /\ ~effectPending
    /\ syncState = "Failed" /\ requests = 1 /\ inFlight = 0

-----------------------------------------------------------------------------
(* C11 *)

\* C11: the render-time sync attempt is non-fatal. Whatever the attempt
\* settled with (synced, not synced, non-2xx, undecodable body, transport
\* error) the page is rendered; the page fails only on a session error that is
\* not a JWE error, before any attempt.
C11_RenderSyncNonFatal ==
    /\ (renderOutcome # NoResponse => pagePc = "rendered")
    /\ (pagePc = "error" => pageSession.kind = "throws" /\ renderRequests = 0)
    /\ (renderRequests > 0 => pagePc \in {"sync", "rendered"})

\* The page was rendered after a 2xx answer whose body could not be decoded.
C11_Witness ==
    /\ pagePc = "rendered" /\ renderOutcome.kind = "http"
    /\ ok(renderOutcome.status) /\ ~renderOutcome.body.json

-----------------------------------------------------------------------------
(* C12 *)

\* C12 as stated: the render can complete without waiting for the render-time
\* call: while the call is outstanding a step that renders the page is possible.
C12_RenderNeedNotWait ==
    pagePc = "sync" /\ renderOutcome = NoResponse =>
        ENABLED (NextPage /\ pagePc' = "rendered" /\ renderOutcome' = NoResponse)

\* C12 amended: the render-time attempt delays rendering but never prevents
\* it: the page is rendered only after its one render-time call has settled
\* (answered or failed), and while the call is outstanding the page is not
\* rendered.
C12_RenderWaitsForSync ==
    /\ (pagePc = "rendered" => renderOutcome # NoResponse /\ renderRequests = 1)
    /\ (renderRequests = 1 /\ renderOutcome = NoResponse => pagePc = "sync")

\* The page was rendered after the render-time fetch had failed to connect.
C12_Witness ==
    pagePc = "rendered" /\ renderOutcome = FetchThrew

-----------------------------------------------------------------------------
(* C13 *)

\* C13: the render-time call is evaluated against the session of the
\* principal the page is rendered for, and when that session yields a
\* credential the call is not turned away as unauthenticated.
C13_RenderSyncUsesPrincipalSession ==
    /\ (origin = "render" /\ pc # "idle" => session = pageSession)
    /\ (/\ pagePc = "rendered" /\ appBase = "self"
        /\ HasPrincipal(pageSession) /\ BestTier(pageSession) # "none"
        => renderOutcome.kind = "http" /\ renderOutcome.status # 401)

-----------------------------------------------------------------------------
(* C14 *)

\* C14: one page load produces at most one render-time request and at most
\* one client-side request to /api/sync-user, and the backend identity calls
\* made for it number at most one per request, hence at most two.
C14_AtMostOncePerCallSite ==
    /\ renderRequests <= 1
    /\ requests <= 1
    /\ backendCalls + Len(calls) <= renderRequests + requests
    /\ backendCalls + Len(calls) <= 2

\* Both call sites have made their request and the client-side one synced.
C14_Witness ==
    /\ pagePc = "rendered" /\ renderRequests = 1 /\ requests = 1
    /\ renderOutcome # NoResponse /\ syncState = "Synced" /\ backendCalls = 1

-----------------------------------------------------------------------------
(* C16 *)

\* The synthesized credentials among the backend calls of the request.
SynthesizedCalls == {i \in 1..Len(calls) : calls[i].bearer.kind = "jwt"}

\* C16: in every synthesized credential exp = iat + 3600, whenever it is
\* built, also when the clock advances between its two readings.
C16_ExpiryIsIssuedAtPlusHour ==
    \A i \in SynthesizedCalls :
        calls[i].bearer.payload.exp = calls[i].bearer.payload.iat + 3600

-----------------------------------------------------------------------------
(* C17 *)

\* The session's value of a profile field, null when it has none.
OrNull(v) == IF Truthy(v) THEN v ELSE NULL

\* The session's display name: its name, else its nickname.
DisplayName(u) == IF Truthy(u.name) THEN u.name ELSE OrNull(u.nickname)

\* When a synthesized credential is built: the session has a sub and no
\* API or identity credential, and sub is the session's principalId.
SynthesizedOnlyAsLastResort(i) ==
    /\ session.kind = "session" /\ session.user.present
    /\ HasSub(session)
    /\ ApiCredentials(session) = {} /\ IdentityCredentials(session) = {}
    /\ calls[i].bearer.payload.sub = session.user.sub
    /\ calls[i].bearer.payload.name = DisplayName(session.user)
    /\ calls[i].bearer.payload.picture = OrNull(session.user.picture)

\* C17 as stated: the payload's email is the session's email (none when the
\* session has none), beside sub, name and picture.
C17_PayloadEmailIsSessionEmail ==
    \A i \in SynthesizedCalls :
        /\ SynthesizedOnlyAsLastResort(i)
        /\ calls[i].bearer.payload.email = session.user.email

\* C17 amended: a synthesized credential is built only when the session has a
\* sub and neither an API nor an identity credential; its payload carries the
\* session's sub, its display name (name, else nickname) and picture, null
\* when the session has none, and its email, the empty string when the
\* session has none.
C17_SynthesizedFromSession ==
    \A i \in SynthesizedCalls :
        /\ SynthesizedOnlyAsLastResort(i)
        /\ calls[i].bearer.payload.email =
              (IF Truthy(session.user.email) THEN session.user.email ELSE "")

\* A synthesized credential was sent for a session with a nickname but no
\* name and no email.
C17_Witness ==
    /\ SynthesizedCalls # {}
    /\ session.user.name = NULL /\ session.user.nickname = "ann"
    /\ session.user.email = NULL
    /\ calls[1].bearer.payload.name = "ann" /\ calls[1].bearer.payload.email = ""

-----------------------------------------------------------------------------
(* C15 *)

\* The dot-separated segments of the synthesized token.
TokenSegments == Split(tokenText, 46)

\* The mapping has a member of this key whose value is this string.
HasString(m, key, value) ==
    \E i \in 1..Len(m.members) :
        /\ m.members[i].key = Text[key]
        /\ m.members[i].kind = "string"
        /\ m.members[i].str = value

\* C15: every synthesized token splits on '.' into exactly three segments,
\* the third empty; its header segment decodes to a mapping with alg "none";
\* its payload segment decodes to a mapping with a non-empty string sub, the
\* session's.
C15_StructurallyDecodable ==
    tokenText # NoText =>
        /\ Len(TokenSegments) = 3
        /\ TokenSegments[3] = <<>>
        /\ DecodeSegment(TokenSegments[1]).ok
        /\ HasString(DecodeSegment(TokenSegments[1]), "alg", Text["none"])
        /\ DecodeSegment(TokenSegments[2]).ok
        /\ HasString(DecodeSegment(TokenSegments[2]), "sub", Text[tokenUser.sub])
        /\ Text[tokenUser.sub] # <<>>

\* A token was built for a sub that contains a dot and a name with quotes
\* and a non-ASCII letter.
C15_Witness ==
    /\ tokenText # NoText
    /\ tokenUser.sub = "a.b" /\ tokenUser.name = "Zoe \"Z\""
    /\ HasString(DecodeSegment(TokenSegments[2]), "name", Text["Zoe \"Z\""])

-----------------------------------------------------------------------------
(* C18 *)

\* The UserRecords of a subject.
UsersOf(s) == {r \in db : r.auth0_id = s}

\* The time t lies within the span of a call, from its arrival to its answer.
Within(t, span) == span[1] <= t /\ t <= span[2]

\* C18: with the calls of the identity endpoint made one after the other,
\* every state has at most one UserRecord per subject; a subject without a
\* completed call has none, and after N >= 1 completed calls there is exactly
\* one, created during the first call and last logged in during the last.
C18_IdempotentUpsert ==
    \A s \in Subjects :
        /\ Cardinality(UsersOf(s)) <= 1
        /\ (history[s].n = 0 => UsersOf(s) = {})
        /\ (history[s].n >= 1 =>
               /\ Cardinality(UsersOf(s)) = 1
               /\ \A r \in UsersOf(s) :
                     /\ Within(r.created_at, history[s].first)
                     /\ Within(r.last_login, history[s].last))

\* Two calls for one subject were completed at different times.
C18_Witness ==
    /\ history["idp|42"].n = 2
    /\ \E r \in UsersOf("idp|42") : r.created_at < r.last_login

-----------------------------------------------------------------------------
(* C19 *)

\* Worker w commits the update of the user it found.
UpdateBy(w) ==
    worker[w].pc = "write" /\ worker[w].found # 0 /\ worker'[w].pc = "idle"

\* The display name the token of worker w gives: its name, else its nickname.
TokenName(w) ==
    IF Truthy(worker[w].payload.name)
    THEN worker[w].payload.name ELSE worker[w].payload.nickname

\* C19 as stated: an update with a token whose name (or picture) is empty or
\* absent leaves the stored name (or picture) unchanged.
C19_EmptyNameKeepsStored ==
    [][\A w \in Workers : UpdateBy(w) =>
          \A r \in db : r.id = worker[w].found =>
              \E r2 \in db' :
                  /\ r2.id = r.id
                  /\ (~Truthy(worker[w].payload.name) => r2.name = r.name)
                  /\ (~Truthy(worker[w].payload.picture) => r2.picture = r.picture)]_vars

\* C19 amended: in every step every stored UserRecord keeps its name unless
\* that step is the update of this record with a token whose display name
\* (name, else nickname) is non-empty and differs from the stored one, which
\* then replaces it; likewise its picture with the token's picture.
C19_NonDestructiveUpdate ==
    [][\A r \in db : \E r2 \in db' :
          /\ r2.id = r.id
          /\ \/ r2.name = r.name
             \/ \E w \in Workers :
                   /\ UpdateBy(w) /\ worker[w].found = r.id
                   /\ Truthy(TokenName(w)) /\ TokenName(w) # r.name
                   /\ r2.name = TokenName(w)
          /\ \/ r2.picture = r.picture
             \/ \E w \in Workers :
                   /\ UpdateBy(w) /\ worker[w].found = r.id
                   /\ Truthy(worker[w].payload.picture)
                   /\ worker[w].payload.picture # r.picture
                   /\ r2.picture = worker[w].payload.picture]_vars

\* The call answered last updated a record from a token without name,
\* nickname and picture, and the record still has its name and picture.
C19_Witness ==
    /\ lastDone.status = 200 /\ lastDone.found /\ lastDone.sub = "idp|42"
    /\ ~lastDone.nameGiven /\ ~lastDone.nicknameGiven /\ ~lastDone.pictureGiven
    /\ \E r \in UsersOf("idp|42") : r.name = "Ann" /\ r.picture = "p1"

-----------------------------------------------------------------------------
(* C20 *)

\* C20: once two requests bearing the same subject have been answered,
\* however their lookups and writes interleaved, exactly one UserRecord of
\* that subject exists and neither request has failed.
C20_ConcurrentSyncsSafe ==
    \A s \in Subjects :
        history[s].n >= 2 =>
            Cardinality(UsersOf(s)) = 1 /\ ~history[s].failed

-----------------------------------------------------------------------------
(* C21 *)

\* C21: a token without a usable subject (not decodable, or with a missing
\* or empty sub) is answered 401 and creates or modifies no UserRecord: no
\* record has an empty subject, and a call for such a token ends with 401.
C21_RejectsUnusableSubject ==
    /\ \A r \in db : Truthy(r.auth0_id)
    /\ (lastDone.status # 0 /\ ~Truthy(lastDone.sub) => lastDone.status = 401)
    /\ \A w \in Workers : worker[w].pc # "idle" => Truthy(worker[w].payload.sub)

-----------------------------------------------------------------------------
(* C30 *)

\* C30: in every step every UserRecord stays in the table with its internal
\* identifier, externalSubjectId, email and createdAt; it changes at all only
\* in the update of a call that found this record by its own subject; no
\* record is deleted.
C30_UpdateFrame ==
    [][\A r \in db : \E r2 \in db' :
          /\ r2.id = r.id /\ r2.auth0_id = r.auth0_id
          /\ r2.email = r.email /\ r2.created_at = r.created_at
          /\ \/ r2 = r
             \/ \E w \in Workers :
                   /\ UpdateBy(w) /\ worker[w].found = r.id
                   /\ worker[w].payload.sub = r.auth0_id]_vars

\* A record created with one email was updated from a token with another
\* email and another name, and keeps its email and its creation time.
C30_Witness ==
    /\ lastDone.status = 200 /\ lastDone.found /\ lastDone.sub = "idp|42"
    /\ \E r \in db :
          /\ r.auth0_id = "idp|42" /\ r.name = "Bob" /\ r.picture = "p2"
          /\ r.email = "a@b.com" /\ r.created_at < r.last_login

-----------------------------------------------------------------------------
(* C22 *)

\* The request's session cookie cannot be decrypted (a JWE error).
SessionError == cookie.kind = "throws" /\ cookie.jwe

\* C22: a request whose session cookie raises a JWE error is never a hard
\* failure: the middleware clears the cookies and lets it continue, and the
\* page answers as for an unauthenticated request; an error that is not a
\* session error is re-thrown.
C22_SessionErrorsNeverFatal ==
    /\ (SessionError /\ stage # "middleware" => cleared /\ answer # "error")
    /\ (SessionError /\ stage = "done" => answer \in {"redirected", "landing"})
    /\ (cookie.kind = "throws" /\ ~cookie.jwe /\ stage # "middleware" =>
            stage = "done" /\ answer = "error")

-----------------------------------------------------------------------------
(* C23 *)

\* The page load has no authenticated principal: getSession() returned no
\* session or a session without user, or failed with a swallowed JWE error.
NoPrincipal ==
    \/ pageSession.kind = "null"
    \/ pageSession.kind = "session" /\ ~pageSession.user.present
    \/ pageSession.kind = "throws" /\ IsJweError(pageSession)

\* C23: without authenticated principal DashboardPage redirects and neither
\* starts the render-time attempt nor renders the dashboard, so UserSync is
\* never mounted; any sync request of a page load is made for a session with
\* a user.
C23_DashboardProtected ==
    /\ (pagePc # "start" /\ NoPrincipal =>
            /\ pagePc = "redirected"
            /\ renderRequests = 0 /\ requests = 0 /\ backendCalls = 0
            /\ renderOutcome = NoResponse
            /\ ClientUnmounted)
    /\ (renderRequests > 0 \/ requests > 0 \/ pagePc \in {"sync", "rendered"} =>
            pageSession.kind = "session" /\ pageSession.user.present)

\* The dashboard was requested with a session that has no user and redirected.
C23_Witness ==
    /\ pagePc = "redirected"
    /\ pageSession.kind = "session" /\ ~pageSession.user.present

-----------------------------------------------------------------------------
(* C24 *)

\* The step is a run of the effect of the mounted component.
EffectRuns == effectPending /\ ~effectPending' /\ lifecycle' = lifecycle

\* C24: a request to /api/sync-user is issued only with isLoading false and
\* a user present; an effect run while loading or without user leaves the
\* attempted flag and the request count alone; an effect run with isLoading
\* false, a user present and no attempt made sets the flag and issues the
\* one request.
C24_WaitsForConfirmedPrincipal ==
    [][ /\ (requests' > requests => ~isLoading /\ user # NULL /\ EffectRuns)
        /\ (EffectRuns /\ (isLoading \/ user = NULL) =>
               /\ hasAttemptedRef' = hasAttemptedRef
               /\ requests' = requests /\ inFlight' = inFlight
               /\ syncState' = syncState)
        /\ (EffectRuns /\ ~isLoading /\ user # NULL /\ ~hasAttemptedRef /\ ~hasSyncedRef =>
               /\ hasAttemptedRef'
               /\ requests' = requests + 1 /\ requests' = 1
               /\ syncState' = "Attempting")
      ]_vars

\* After effect runs on the same instance the attempt has been started for a
\* confirmed user.
C24_Witness ==
    /\ syncState = "Attempting" /\ hasAttemptedRef /\ requests = 1 /\ inFlight = 1
    /\ user # NULL /\ ~isLoading /\ ~effectPending /\ reruns >= 1

-----------------------------------------------------------------------------
(* C27 *)

\* The request of the attempt settles in this step.
Settles == inFlight' < inFlight /\ lifecycle' = lifecycle

\* The terminal states the claim allows for a settled request.
TerminalFor(resp) ==
    IF resp.kind # "http" THEN {"Failed"}
    ELSE IF resp.status \notin 200..299 THEN {"Failed"}
    ELSE IF ~resp.body.json THEN {"Failed"}
    ELSE IF "synced" \notin DOMAIN resp.body.value THEN Terminal
    ELSE IF resp.body.value.synced THEN {"Synced"}
    ELSE {"Deferred"}

\* C27: an attempt that has started is Attempting with its one request in
\* flight until that request settles; the settling step ends it in exactly
\* one terminal state (Synced for 2xx with synced = true, Deferred for 2xx
\* with synced = false, Failed for a non-2xx status, an undecodable body or a
\* rejected fetch), and that state is kept for the rest of the lifecycle.
C27_AttemptReachesOneTerminal ==
    [][ /\ (syncState = "Attempting" <=> inFlight = 1)
        /\ (syncState' = "Attempting" <=> inFlight' = 1)
        /\ (Settles =>
               /\ syncState = "Attempting" /\ inFlight' = 0
               /\ syncState' \in TerminalFor(lastResponse'))
        /\ (syncState \in Terminal /\ lifecycle' = lifecycle => syncState' = syncState)
      ]_vars

\* The attempt ended Failed on a 2xx answer whose body could not be decoded.
C27_Witness ==
    /\ syncState = "Failed" /\ inFlight = 0 /\ requests = 1
    /\ lastResponse.kind = "http" /\ lastResponse.status = 200
    /\ ~lastResponse.body.json

-----------------------------------------------------------------------------
(* C28 *)

\* C28: hasSynced implies hasAttempted before and after every step; a step
\* that issues the request has set hasAttempted, a request is in flight only
\* with the flag set, and the flag is not reset while the component lives;
\* hasSynced becomes true only in a step that receives a 2xx response whose
\* decoded body has synced = true.
C28_GuardFlags ==
    [][ /\ (hasSyncedRef => hasAttemptedRef)
        /\ (hasSyncedRef' => hasAttemptedRef')
        /\ (requests' > requests => hasAttemptedRef')
        /\ (inFlight > 0 => hasAttemptedRef)
        /\ (hasAttemptedRef /\ lifecycle' = lifecycle => hasAttemptedRef')
        /\ (hasSyncedRef /\ lifecycle' = lifecycle => hasSyncedRef')
        /\ (hasSyncedRef' /\ ~hasSyncedRef =>
               /\ lastResponse'.kind = "http"
               /\ lastResponse'.status \in 200..299
               /\ lastResponse'.body.json
               /\ "synced" \in DOMAIN lastResponse'.body.value
               /\ lastResponse'.body.value.synced)
      ]_vars

\* Both flags are set after the request was answered 200 with synced = true.
C28_Witness ==
    /\ hasSyncedRef /\ hasAttemptedRef /\ syncState = "Synced"
    /\ lastResponse.kind = "http" /\ lastResponse.status = 200

-----------------------------------------------------------------------------
(* C25 *)

\* C25: a finished /api/sync-user request reports synced = true only if that
\* request made exactly one call to the backend identity endpoint, the call was
\* answered with a 2xx status and a decodable body, and the user it returns is
\* that body; a 2xx answer whose body does not decode never gives synced = true.
C25_SyncedOnlyFromBackendAnswer ==
    SyncDone =>
        /\ (IsSynced(result) =>
                /\ Len(calls) = 1
                /\ calls[1].url = ConfiguredBaseUrl \o "/api/v1/auth/me"
                /\ response.kind = "http"
                /\ ok(response.status)
                /\ response.body.json
                /\ result.body.user = response.body.value)
        /\ (response.kind = "http" /\ ok(response.status) /\ ~response.body.json
                => ~IsSynced(result))

C25_Witness ==
    /\ SyncDone /\ IsSynced(result)
    /\ Len(calls) = 1 /\ BackendAccepted
    /\ result.body.user = response.body.value

-----------------------------------------------------------------------------
(* C26 *)

\* The first field of a probe list that holds a non-empty string, if any.
FirstPresent(fields) ==
    IF \E i \in 1..Len(fields) : fields[i] \notin {NULL, ""}
    THEN fields[CHOOSE i \in 1..Len(fields) :
                    /\ fields[i] \notin {NULL, ""}
                    /\ \A j \in 1..(i - 1) : fields[j] \in {NULL, ""}]
    ELSE NULL

ApiProbe(s) ==
    FirstPresent(<<s.accessToken, s.access_token,
                   IF s.token.present THEN s.token.access_token ELSE NULL>>)
IdentityProbe(s) == FirstPresent(<<s.idToken, s.id_token>>)

\* The selection step of GET /api/sync-user has run and the backend has not
\* answered yet.
JustSelected ==
    /\ route = "sync-user" /\ pc \in {"fetch", "done"}
    /\ HasPrincipal(session) /\ response = NoResponse

\* C26: credential selection is total over session shapes. For every combination
\* of present, absent and empty accessToken, access_token, token,
\* token.access_token, idToken, id_token and user.sub, the selection step ends in
\* exactly one of four ways and never in an error answer: the first non-empty
\* API credential is sent; or, there being none, the first non-empty identity
\* credential is sent; or, there being none, a synthesized credential is sent
\* for a non-empty sub; or nothing is sent and the answer is the deferred one.
\* An empty-string credential counts as absent.
C26_SelectionTotal ==
    JustSelected =>
        LET api == ApiProbe(session)
            idc == IdentityProbe(session)
            sub == session.user.sub
        IN  \/ /\ api # NULL
               /\ pc = "fetch" /\ result = NoResult /\ Len(calls) = 1
               /\ calls[1].tier = "access" /\ calls[1].bearer = Opaque(api)
            \/ /\ api = NULL /\ idc # NULL
               /\ pc = "fetch" /\ result = NoResult /\ Len(calls) = 1
               /\ calls[1].tier = "id" /\ calls[1].bearer = Opaque(idc)
            \/ /\ api = NULL /\ idc = NULL /\ sub \notin {NULL, ""}
               /\ pc = "fetch" /\ result = NoResult /\ Len(calls) = 1
               /\ calls[1].tier = "session" /\ calls[1].bearer.kind = "jwt"
               /\ calls[1].bearer.payload.sub = sub
            \/ /\ api = NULL /\ idc = NULL /\ sub \in {NULL, ""}
               /\ pc = "done" /\ calls = <<>>
               /\ IsDeferred(result) /\ result.status = 200

\* accessToken is the empty string and selection fell through to access_token.
C26_Witness ==
    /\ JustSelected /\ pc = "fetch"
    /\ session.accessToken = "" /\ session.access_token = "at_b"
    /\ session.idToken = "" /\ session.id_token = NULL
    /\ calls[1].tier = "access" /\ calls[1].bearer = Opaque("at_b")

-----------------------------------------------------------------------------
(* C29 *)

\* C29: the two routes agree on the API credential. For every session shape the
\* accessToken that GET /api/auth-token returns is the first non-empty of
\* accessToken, access_token, token.access_token, and null when there is none,
\* an identity token in the session notwithstanding; and whenever GET
\* /api/sync-user sends a credential in its API-credential tier it sends exactly
\* the value /api/auth-token returns for that session, while in every other tier
\* /api/auth-token returns null for that session.
C29_RoutesAgreeOnApiCredential ==
    /\ (TokenDone /\ session.kind = "session" =>
            /\ result.status = 200
            /\ result.body.accessToken = ApiProbe(session)
            /\ (ApiProbe(session) = NULL => result.body.accessToken = NULL)
            /\ result.body.accessToken \notin IdentityCredentials(session))
    /\ (SyncSelected /\ HasPrincipal(session) =>
            LET returned == AuthTokenResult(session).body.accessToken IN
            IF Len(calls) = 1 /\ calls[1].tier = "access"
            THEN calls[1].bearer = Opaque(returned) /\ returned # NULL
            ELSE returned = NULL)

\* /api/auth-token answered null for a session that holds an identity token only.
C29_Witness ==
    /\ TokenDone /\ HasPrincipal(session)
    /\ ApiCredentials(session) = {} /\ IdentityCredentials(session) # {}
    /\ result.status = 200 /\ result.body.accessToken = NULL

====
